---- MODULE Spec2Model ----
(***************************************************************************)
(* A model of cubetonic: the connection task (luanti_client.rs), the map   *)
(* and its meshgen snapshots (map.rs), the meshgen (meshgen.rs) and the    *)
(* main task's mesh table (main.rs).                                       *)
(*                                                                         *)
(* Option<T> is modelled as a sequence: None is << >>, Some(x) is <<x>>.   *)
(* I16Vec3 / MapBlockPos / MapNodePos are 3-tuples of integers.            *)
(***************************************************************************)
EXTENDS Integers, Sequences, FiniteSets, TLC

(***************************************************************************)
(* Bounds of the model.                                                    *)
(***************************************************************************)
\* Edge length of a mapblock in the model (MapBlockPos::SIZE is 16 in luanti_core).
SIZE == 3
\* Number of network commands the connection task processes in one run.
MaxCmds == 6
\* Number of clock reads that may return the same instant as the previous read.
MaxTies == 2
\* Number of PlayerPos samples the main task sends to the connection task.
MaxMainEvents == 1
\* Number of results delivered to the reconciler in the reconciler-only specification.
MaxDeliveries == 4
\* Largest timestamp of a result in the reconciler-only specification.
MaxTimestamp == 2
\* Number of operations on the map in the map-only specification.
MaxMapOps == 3
\* Number of changes of the map while a task holds a snapshot (snapshot-only specification).
MaxChanges == 2

(***************************************************************************)
(* Option, vectors.                                                        *)
(***************************************************************************)
None == << >>
Some(x) == << x >>
is_some(o) == o # << >>
unwrap(o) == o[1]

VecAdd(a, b) == << a[1] + b[1], a[2] + b[2], a[3] + b[3] >>
VecScale(a, k) == << a[1] * k, a[2] * k, a[3] * k >>
VecDiv(a, k) == << a[1] \div k, a[2] \div k, a[3] \div k >>
ZERO == << 0, 0, 0 >>

\* Luanti's "BS" factor
BS == 10

(***************************************************************************)
(* Content ids and node definitions (node_def.rs).                         *)
(***************************************************************************)
CONTENT_UNKNOWN == 125
CONTENT_AIR == 126
CONTENT_IGNORE == 127

MapNode(c) == [content_id |-> c, param1 |-> 0, param2 |-> 0]
AIR_NODE == [content_id |-> CONTENT_AIR, param1 |-> 0, param2 |-> 0]

TileDefs(name) == [f \in 1..6 |-> [name |-> name]]

\* NodeDefManager::from_network: the three built-in definitions, then the
\* definitions received from the server (which replace a built-in of the same id).
from_network(data) ==
    LET builtin == (CONTENT_UNKNOWN :> [name |-> "unknown", drawtype |-> "Normal",
                                        tiledef |-> TileDefs("unknown_node.png")])
                @@ (CONTENT_AIR :> [name |-> "air", drawtype |-> "AirLike",
                                    tiledef |-> TileDefs("")])
                @@ (CONTENT_IGNORE :> [name |-> "ignore", drawtype |-> "AirLike",
                                       tiledef |-> TileDefs("")])
    IN  [c \in (DOMAIN builtin) \cup (DOMAIN data) |->
            IF c \in DOMAIN data THEN data[c] ELSE builtin[c]]

\* NodeDefManager::get_with_fallback
get_with_fallback(node_def, content_id) ==
    IF content_id \in DOMAIN node_def THEN node_def[content_id]
    ELSE node_def[CONTENT_UNKNOWN]

(***************************************************************************)
(* The map (map.rs).                                                       *)
(***************************************************************************)
NumNodes == SIZE * SIZE * SIZE

\* MapNodePos::split_index: the containing mapblock (floor division per axis)
\* and the index of the node in it (x fastest, then y, then z).
split_index(pos) ==
    << << pos[1] \div SIZE, pos[2] \div SIZE, pos[3] \div SIZE >>,
       (pos[3] % SIZE) * SIZE * SIZE + (pos[2] % SIZE) * SIZE + (pos[1] % SIZE) >>

\* MapNodePos::from(MapBlockPos): the first node of the mapblock.
node_pos_of_block(blockpos) == VecScale(blockpos, SIZE)

\* Mutant: the order the comment in map.rs gives (-Y twice, no -X).
NEIGHBOR_DIRS_as_commented ==
    << << 0, 1, 0 >>, << 0, -1, 0 >>, << 1, 0, 0 >>,
       << 0, -1, 0 >>, << 0, 0, 1 >>, << 0, 0, -1 >> >>

\* Offsets for the 6 neighbors of a mapblock or node.
NEIGHBOR_DIRS ==
    << << 0, 1, 0 >>, << 0, -1, 0 >>, << 1, 0, 0 >>,
       << -1, 0, 0 >>, << 0, 0, 1 >>, << 0, 0, -1 >> >>

\* MapBlockPos::checked_add; every coordinate of the model is far inside the
\* valid range of a MapBlockPos, so the sum is always Some.
checked_add(blockpos, dir) == Some(VecAdd(blockpos, dir))

\* LuantiMap::get_block
get_block(m, blockpos) ==
    IF blockpos \in DOMAIN m THEN Some(m[blockpos]) ELSE None

\* Mutant: an existing mapblock is kept (HashMap::entry().or_insert()).
insert_block_keep(m, blockpos, data) ==
    [p \in (DOMAIN m) \cup {blockpos} |-> IF p \in DOMAIN m THEN m[p] ELSE data]

\* Mutant: the map is cleared before the mapblock is inserted.
insert_block_only(m, blockpos, data) == [p \in { blockpos } |-> data]

\* LuantiMap::insert_block
insert_block(m, blockpos, data) ==
    [p \in (DOMAIN m) \cup {blockpos} |-> IF p = blockpos THEN data ELSE m[p]]

\* Mutant: a missing mapblock is created, filled with air (HashMap::entry().or_insert()).
set_node_create(m, pos, node) ==
    LET blockpos == split_index(pos)[1]
        index == split_index(pos)[2]
        with == [p \in (DOMAIN m) \cup { blockpos } |->
                    IF p \in DOMAIN m THEN m[p]
                    ELSE [i \in 0 .. (NumNodes - 1) |->
                             [content_id |-> CONTENT_AIR, param1 |-> 0, param2 |-> 0]]]
    IN  << [with EXCEPT ![blockpos] = [@ EXCEPT ![index] = node]], Some(blockpos) >>

\* Mutant: the index in the mapblock is computed with y and z exchanged.
set_node_yz(m, pos, node) ==
    LET blockpos == split_index(pos)[1]
        index == split_index(<< pos[1], pos[3], pos[2] >>)[2]
    IN  IF blockpos \notin DOMAIN m THEN << m, None >>
        ELSE << [m EXCEPT ![blockpos] = [@ EXCEPT ![index] = node]], Some(blockpos) >>

\* LuantiMap::set_node: <<the map afterwards, the returned Option<MapBlockPos>>>
set_node(m, pos, node) ==
    LET blockpos == split_index(pos)[1]
        index == split_index(pos)[2]
    IN  IF blockpos \notin DOMAIN m THEN << m, None >>
        ELSE << [m EXCEPT ![blockpos] = [@ EXCEPT ![index] = node]], Some(blockpos) >>

\* Mutant: the neighbours are stored one slot further than NEIGHBOR_DIRS says.
MeshgenMapData_new_shifted(m, blockpos, block) ==
    [ blockpos |-> blockpos,
      block |-> block,
      neighbors |-> [i \in 1..6 |->
          LET n == checked_add(blockpos, NEIGHBOR_DIRS[(i % 6) + 1])
          IN  IF is_some(n) /\ is_some(get_block(m, unwrap(n)))
              THEN Some(unwrap(get_block(m, unwrap(n))))
              ELSE None] ]

\* MeshgenMapData::new
MeshgenMapData_new(m, blockpos, block) ==
    [ blockpos |-> blockpos,
      block |-> block,
      neighbors |-> [i \in 1..6 |->
          LET n == checked_add(blockpos, NEIGHBOR_DIRS[i])
          IN  IF is_some(n) /\ is_some(get_block(m, unwrap(n)))
              THEN Some(unwrap(get_block(m, unwrap(n))))
              ELSE None] ]

\* Mutant: a node of an absent neighbour is taken to be air.
get_node_absent_air(data, pos) ==
    LET vec == split_index(pos)[1]
        index == split_index(pos)[2]
        n_index == IF \E i \in 1..6 : NEIGHBOR_DIRS[i] = vec
                   THEN Some(CHOOSE i \in 1..6 : NEIGHBOR_DIRS[i] = vec)
                   ELSE None
    IN  IF vec = ZERO THEN Some(data.block[index])
        ELSE IF is_some(n_index)
             THEN (IF is_some(data.neighbors[unwrap(n_index)])
                   THEN Some(unwrap(data.neighbors[unwrap(n_index)])[index])
                   ELSE Some(AIR_NODE))
             ELSE None

\* Mutant: a position outside the region is answered from the centre mapblock.
get_node_any_offset(data, pos) ==
    LET vec == split_index(pos)[1]
        index == split_index(pos)[2]
        n_index == IF \E i \in 1..6 : NEIGHBOR_DIRS[i] = vec
                   THEN Some(CHOOSE i \in 1..6 : NEIGHBOR_DIRS[i] = vec)
                   ELSE None
    IN  IF vec = ZERO THEN Some(data.block[index])
        ELSE IF is_some(n_index)
             THEN (IF is_some(data.neighbors[unwrap(n_index)])
                   THEN Some(unwrap(data.neighbors[unwrap(n_index)])[index])
                   ELSE None)
             ELSE Some(data.block[index])

\* MeshgenMapData::get_node
get_node(data, pos) ==
    LET vec == split_index(pos)[1]
        index == split_index(pos)[2]
        n_index == IF \E i \in 1..6 : NEIGHBOR_DIRS[i] = vec
                   THEN Some(CHOOSE i \in 1..6 : NEIGHBOR_DIRS[i] = vec)
                   ELSE None
    IN  IF vec = ZERO THEN Some(data.block[index])
        ELSE IF is_some(n_index)
             THEN (IF is_some(data.neighbors[unwrap(n_index)])
                   THEN Some(unwrap(data.neighbors[unwrap(n_index)])[index])
                   ELSE None)
             ELSE None

(***************************************************************************)
(* The meshgen (meshgen.rs).                                               *)
(***************************************************************************)
\* Number of entries of QUAD_INDICES, and of CUBE_VERTICES per face.
QUAD_INDICES_LEN == 6
FACE_VERTICES == 4

\* The names of all non-empty tiles of a node definition map.
TileNames(node_def) ==
    { node_def[c].tiledef[f].name : c \in DOMAIN node_def, f \in 1..6 } \ { "" }

\* Meshgen::new, the texture loop: a tile whose texture is not among the media
\* paths (or fails to load) gets the empty name.
StripMissingTiles(node_def, media_paths) ==
    [c \in DOMAIN node_def |->
        [node_def[c] EXCEPT !.tiledef =
            [f \in 1..6 |-> IF @[f].name \in media_paths THEN @[f]
                            ELSE [name |-> ""]]]]

\* Meshgen::new, the texture loop: the textures that end up in texture_vec.
LoadedTextures(node_def, media_paths) == TileNames(node_def) \cap media_paths

\* The possible texture maps: texture_vec is filled in the iteration order of a
\* HashMap, so any numbering 0..n-1 of the loaded textures can result.
TextureMaps(names) ==
    { tm \in [names -> 0 .. (Cardinality(names) - 1)] :
        \A a, b \in names : a # b => tm[a] # tm[b] }

\* The faces of one node when the face toward a resolvable neighbour is generated
\* for the draw types in `through`.
generate_single_with(task, faces, pos, node, through) ==
    LET def == get_with_fallback(task.node_def, node.content_id)
        n_node(face) == get_node(task.data, VecAdd(pos, NEIGHBOR_DIRS[face]))
        n_def(face) == get_with_fallback(task.node_def,
                           IF is_some(n_node(face)) THEN unwrap(n_node(face)).content_id
                           ELSE CONTENT_UNKNOWN)
        texture_name(face) == def.tiledef[face].name
        texture_index(face) == IF texture_name(face) \in DOMAIN task.texture_map
                               THEN task.texture_map[texture_name(face)] ELSE 0
        quad(face) == [ position |-> VecAdd(node_pos_of_block(task.data.blockpos), pos),
                        face_index |-> face - 1,
                        texture_index |-> texture_index(face) ]
        emitted == SelectSeq([face \in 1..6 |-> face],
                             LAMBDA face : /\ is_some(n_node(face))
                                           /\ n_def(face).drawtype \in through)
    IN  IF def.drawtype = "AirLike" THEN faces
        ELSE faces \o [k \in 1 .. Len(emitted) |-> quad(emitted[k])]

\* Mutant: only AirLike neighbours let a face through (other draw types cull it).
generate_single_airlike_only(task, faces, pos, node) ==
    generate_single_with(task, faces, pos, node, { "AirLike" })

\* Mutant: every face toward a resolvable neighbour is generated (no culling).
generate_single_cull_none(task, faces, pos, node) ==
    generate_single_with(task, faces, pos, node, { "AirLike", "PlantLike", "Normal" })

\* MeshgenTask::generate_single: the faces of one node, appended to `faces`,
\* in the order of NEIGHBOR_DIRS. A face stands for its FACE_VERTICES vertices
\* and QUAD_INDICES_LEN indices.
generate_single(task, faces, pos, node) ==
    LET def == get_with_fallback(task.node_def, node.content_id)
        n_node(face) == get_node(task.data, VecAdd(pos, NEIGHBOR_DIRS[face]))
        emit(face) ==
            /\ is_some(n_node(face))
            /\ get_with_fallback(task.node_def,
                                 unwrap(n_node(face)).content_id).drawtype # "Normal"
        texture_name(face) == def.tiledef[face].name
        texture_index(face) == IF texture_name(face) \in DOMAIN task.texture_map
                               THEN task.texture_map[texture_name(face)] ELSE 0
        quad(face) == [ position |-> VecAdd(node_pos_of_block(task.data.blockpos), pos),
                        face_index |-> face - 1,
                        texture_index |-> texture_index(face) ]
        emitted == SelectSeq([face \in 1..6 |-> face], emit)
    IN  IF def.drawtype = "AirLike" THEN faces
        ELSE faces \o [k \in 1 .. Len(emitted) |-> quad(emitted[k])]

\* Mutant: the loops of generate nested with y innermost.
local_pos_y_fastest(index) ==
    << (index \div SIZE) % SIZE, index % SIZE, index \div (SIZE * SIZE) >>

\* MeshgenTask::generate: the (x, y, z) the nested loops have reached when the
\* running index has the given value (x innermost, then y, then z).
local_pos(index) == << index % SIZE, (index \div SIZE) % SIZE, index \div (SIZE * SIZE) >>

\* MeshgenTask::generate, the loop over the nodes of the mapblock (x fastest).
RECURSIVE generate_loop(_, _, _)
generate_loop(task, index, faces) ==
    IF index >= NumNodes THEN faces
    ELSE LET pos == local_pos(index)
         IN  generate_loop(task, index + 1,
                           generate_single(task, faces, pos, task.data.block[index]))

\* Mutant: the `return` after the late empty mesh is missing.
generate_no_return(task) ==
    LET faces == generate_loop(task, 0, << >>)
        num == Len(faces) * QUAD_INDICES_LEN
        late == [ blockpos |-> task.data.blockpos, num_indices |-> 0,
                  index_buffer |-> None, vertex_buffer |-> None,
                  timestamp_task_spawned |-> task.timestamp_task_spawned ]
        full == [ blockpos |-> task.data.blockpos, num_indices |-> num,
                  index_buffer |-> Some(num), vertex_buffer |-> Some(faces),
                  timestamp_task_spawned |-> task.timestamp_task_spawned ]
    IN  IF num = 0 THEN << late, full >> ELSE << full >>

\* Mutant: the check for a late empty mesh is missing, the buffers are always
\* created.
generate_always_upload(task) ==
    LET faces == generate_loop(task, 0, << >>)
        num == Len(faces) * QUAD_INDICES_LEN
    IN  << [ blockpos |-> task.data.blockpos, num_indices |-> num,
             index_buffer |-> Some(num), vertex_buffer |-> Some(faces),
             timestamp_task_spawned |-> task.timestamp_task_spawned ] >>

\* MeshgenTask::generate: the MapblockMeshes it sends on main_tx, in order.
\* The late empty mesh is followed by `return`, so one mesh is sent on either path.
\* The vertex buffer is modelled by the faces, the index buffer by its length.
generate(task) ==
    LET faces == generate_loop(task, 0, << >>)
        num == Len(faces) * QUAD_INDICES_LEN
    IN  IF num = 0
        THEN << [ blockpos |-> task.data.blockpos, num_indices |-> 0,
                  index_buffer |-> None, vertex_buffer |-> None,
                  timestamp_task_spawned |-> task.timestamp_task_spawned ] >>
        ELSE << [ blockpos |-> task.data.blockpos, num_indices |-> num,
                  index_buffer |-> Some(num), vertex_buffer |-> Some(faces),
                  timestamp_task_spawned |-> task.timestamp_task_spawned ] >>

\* MeshgenTask::spawn, the quick check for an empty mapblock.
is_empty_block(block) == \A i \in DOMAIN block : block[i].content_id = CONTENT_AIR

\* Mutant: the fast path uploads empty buffers.
empty_mesh_buffers(blockpos, t) ==
    [ blockpos |-> blockpos, num_indices |-> 0,
      index_buffer |-> Some(0), vertex_buffer |-> Some(<< >>),
      timestamp_task_spawned |-> t ]

\* MeshgenTask::spawn, the mesh sent without spawning a task.
empty_mesh(blockpos, t) ==
    [ blockpos |-> blockpos, num_indices |-> 0,
      index_buffer |-> None, vertex_buffer |-> None,
      timestamp_task_spawned |-> t ]

(***************************************************************************)
(* The main task's mesh table (main.rs).                                   *)
(***************************************************************************)
\* Mutant: the timestamps are not compared, the arriving mesh always replaces.
insert_mapblock_mesh_always(meshes, mesh) ==
    [p \in (DOMAIN meshes) \cup {mesh.blockpos} |->
        IF p = mesh.blockpos THEN mesh ELSE meshes[p]]

\* Mutant: a mesh with the timestamp of the stored one replaces it (>= for >).
insert_mapblock_mesh_ge(meshes, mesh) ==
    IF mesh.blockpos \in DOMAIN meshes
    THEN IF mesh.timestamp_task_spawned >= meshes[mesh.blockpos].timestamp_task_spawned
         THEN [meshes EXCEPT ![mesh.blockpos] = mesh]
         ELSE meshes
    ELSE [p \in (DOMAIN meshes) \cup {mesh.blockpos} |->
             IF p = mesh.blockpos THEN mesh ELSE meshes[p]]

\* State::insert_mapblock_mesh, the update of mapblock_meshes.
insert_mapblock_mesh(meshes, mesh) ==
    IF mesh.blockpos \in DOMAIN meshes
    THEN IF mesh.timestamp_task_spawned > meshes[mesh.blockpos].timestamp_task_spawned
         THEN [meshes EXCEPT ![mesh.blockpos] = mesh]
         ELSE meshes
    ELSE [p \in (DOMAIN meshes) \cup {mesh.blockpos} |->
             IF p = mesh.blockpos THEN mesh ELSE meshes[p]]

\* State::insert_mapblock_mesh, the update of remesh_counter.
count_remesh(counter, blockpos) ==
    [p \in (DOMAIN counter) \cup {blockpos} |->
        (IF p \in DOMAIN counter THEN counter[p] ELSE 0)
        + (IF p = blockpos THEN 1 ELSE 0)]

(***************************************************************************)
(* Inputs: the commands the server may send.                               *)
(***************************************************************************)
BlockPositions == { ZERO, << 1, 0, 0 >>, << 0, -1, 0 >> }

AllAir == [i \in 0 .. (NumNodes - 1) |-> AIR_NODE]
AllSolid == [i \in 0 .. (NumNodes - 1) |-> MapNode(1)]
BlockInputs == { AllAir, AllSolid }

\* One node at the +X border of mapblock (0,0,0), one in mapblock (0,-1,0).
NodePosInputs == { << SIZE - 1, 0, 0 >>, << 0, -1, 0 >> }

NodeDefInput ==
    (1 :> [name |-> "stone", drawtype |-> "Normal", tiledef |-> TileDefs("stone.png")])
    @@ (2 :> [name |-> "plant", drawtype |-> "PlantLike", tiledef |-> TileDefs("plant.png")])

\* The media files of an AnnounceMedia that are found in the cache and load.
MediaInputs == { {}, { "stone.png" } }

\* The node of an Addnode: stone with both params set.
AddedNode == [content_id |-> 1, param1 |-> 1, param2 |-> 2]

MoveInputs ==
    { [pos |-> << 10, 20, -30 >>, yaw |-> 90, pitch |-> 15],
      [pos |-> << 0, 0, 0 >>, yaw |-> 0, pitch |-> 0] }

Commands ==
    { [kind |-> "Hello", first_srp |-> b] : b \in BOOLEAN }
    \cup { [kind |-> "AuthAccept"] }
    \cup { [kind |-> "Nodedef", node_def |-> NodeDefInput] }
    \cup { [kind |-> "AnnounceMedia", files |-> f] : f \in MediaInputs }
    \cup { [kind |-> "MovePlayer", pos |-> m.pos, yaw |-> m.yaw, pitch |-> m.pitch] :
             m \in MoveInputs }
    \cup { [kind |-> "Blockdata", pos |-> p, nodes |-> b] :
             p \in BlockPositions, b \in BlockInputs }
    \cup { [kind |-> "Addnode", pos |-> p, node |-> AddedNode] : p \in NodePosInputs }
    \cup { [kind |-> "Removenode", pos |-> p] : p \in NodePosInputs }
    \cup { [kind |-> "Other"] }

(***************************************************************************)
(* State.                                                                  *)
(***************************************************************************)
VARIABLES
    \* LuantiClientRunner (luanti_client.rs)
    state,          \* ClientState
    task,           \* the connection task: "start", "running", "disconnected", "panicked"
    map,            \* LuantiMap.blocks
    node_def,       \* Option<NodeDefManager>
    media,          \* Option<MediaManager>
    meshgen,        \* Option<Meshgen>
    sent,           \* the commands sent to the server, in order
    pending,        \* the submit calls generate_mapblock_with_neighbors has still to make
    running,        \* Option<MeshgenTask>: the task pool.install is waiting for
    clock,          \* the last reading of Instant::now()
    ties,           \* how many readings repeated the previous instant
    \* channels
    to_main,        \* main_tx -> client_rx
    to_client,      \* client_tx -> main_rx
    \* State (main.rs)
    main_task,      \* the main task: "running", "panicked"
    mapblock_texture_data, \* Option (render_pipeline is Some exactly when this is)
    remesh_counter_total,
    remesh_counter,
    mapblock_meshes,
    camera_pos,     \* CameraController.pos
    main_events,    \* how many PlayerPos samples the main task has sent
    \* history
    ncmds,          \* how many network commands have been processed
    last,           \* the network command processed last
    cmd_jobs,       \* the mapblocks submitted to the meshgen by the last command
    job_log,        \* one record per Meshgen::submit call, in order, with the map
                    \* (world) at the time of the call
    delivered,      \* the meshes passed to insert_mapblock_mesh, in order
    script          \* progress along Hello, AuthAccept, Nodedef, AnnounceMedia

conn_vars == << state, task, map, node_def, media, meshgen, sent, pending, running,
                clock, ties >>
main_vars == << main_task, mapblock_texture_data, remesh_counter_total, remesh_counter,
                mapblock_meshes, camera_pos, main_events, delivered >>
hist_vars == << ncmds, last, cmd_jobs, job_log, script >>
vars == << conn_vars, to_main, to_client, main_vars, hist_vars >>

Init ==
    /\ state = "Connected"
    /\ task = "start"
    /\ map = << >>
    /\ node_def = None
    /\ media = None
    /\ meshgen = None
    /\ sent = << >>
    /\ pending = << >>
    /\ running = None
    /\ clock = 0
    /\ ties = 0
    /\ to_main = << >>
    /\ to_client = << >>
    /\ main_task = "running"
    /\ mapblock_texture_data = None
    /\ remesh_counter_total = 0
    /\ remesh_counter = << >>
    /\ mapblock_meshes = << >>
    /\ camera_pos = [pos |-> ZERO, yaw |-> 0, pitch |-> 0]
    /\ main_events = 0
    /\ ncmds = 0
    /\ last = [kind |-> "None"]
    /\ cmd_jobs = << >>
    /\ job_log = << >>
    /\ delivered = << >>
    /\ script = 0

(***************************************************************************)
(* The connection task (luanti_client.rs).                                 *)
(***************************************************************************)
\* Mutant: the submit calls are left to run after the handler has returned.
Idle_async == task = "running"

\* The connection task is in the select! of run_inner.
Idle == task = "running" /\ pending = << >> /\ running = None

\* History of a processed network command; `ok` tells whether the handler returned Ok.
Script == << "Hello", "AuthAccept", "Nodedef", "AnnounceMedia" >>
Received(cmd, ok) ==
    /\ ncmds' = ncmds + 1
    /\ last' = cmd
    /\ cmd_jobs' = << >>
    /\ UNCHANGED job_log
    /\ script' = IF cmd.kind = "MovePlayer" /\ ok THEN script
                 ELSE IF script = Len(Script) /\ ok THEN script
                 ELSE IF script \in 0 .. (Len(Script) - 1) /\ ok
                         /\ cmd.kind = Script[script + 1]
                      THEN script + 1
                      ELSE -1

\* run_inner, before the loop: Init is sent.
SendInit ==
    /\ task = "start"
    /\ \E ok \in BOOLEAN :
         IF ok THEN sent' = Append(sent, [kind |-> "Init"]) /\ task' = "running"
         ELSE task' = "disconnected" /\ UNCHANGED sent
    /\ UNCHANGED << state, map, node_def, media, meshgen, pending, running, clock, ties >>
    /\ UNCHANGED << to_main, to_client, main_vars, hist_vars >>

\* run_inner: self.client.recv() returns an error.
RecvFail ==
    /\ Idle
    /\ task' = "disconnected"
    /\ UNCHANGED << state, map, node_def, media, meshgen, sent, pending, running,
                    clock, ties >>
    /\ UNCHANGED << to_main, to_client, main_vars, hist_vars >>

\* Mutant: the MovePlayer arm does not check the state.
InvalidForState_no_move_check(cmd) ==
    CASE cmd.kind = "Hello" -> state # "Connected"
      [] cmd.kind = "AuthAccept" -> state # "AuthSent"
      [] cmd.kind = "Nodedef" -> state # "Init2Sent" \/ is_some(node_def)
      [] cmd.kind = "AnnounceMedia" -> state # "Init2Sent" \/ is_some(media)
      [] cmd.kind = "MovePlayer" -> FALSE
      [] cmd.kind = "Blockdata" -> state # "ReadySent"
      [] cmd.kind = "Addnode" -> state # "ReadySent"
      [] cmd.kind = "Removenode" -> state # "ReadySent"
      [] OTHER -> TRUE

\* Mutant: the Hello arm does not check the state.
InvalidForState_no_hello_check(cmd) ==
    CASE cmd.kind = "Hello" -> FALSE
      [] cmd.kind = "AuthAccept" -> state # "AuthSent"
      [] cmd.kind = "Nodedef" -> state # "Init2Sent" \/ is_some(node_def)
      [] cmd.kind = "AnnounceMedia" -> state # "Init2Sent" \/ is_some(media)
      [] cmd.kind = "MovePlayer" -> state # "ReadySent"
      [] cmd.kind = "Blockdata" -> state # "ReadySent"
      [] cmd.kind = "Addnode" -> state # "ReadySent"
      [] cmd.kind = "Removenode" -> state # "ReadySent"
      [] OTHER -> TRUE

\* process_network_command, the check at the start of each arm: the command is
\* invalid for the state.
InvalidForState(cmd) ==
    CASE cmd.kind = "Hello" -> state # "Connected"
      [] cmd.kind = "AuthAccept" -> state # "AuthSent"
      [] cmd.kind = "Nodedef" -> state # "Init2Sent" \/ is_some(node_def)
      [] cmd.kind = "AnnounceMedia" -> state # "Init2Sent" \/ is_some(media)
      [] cmd.kind = "MovePlayer" -> state # "ReadySent"
      [] cmd.kind = "Blockdata" -> state # "ReadySent"
      [] cmd.kind = "Addnode" -> state # "ReadySent"
      [] cmd.kind = "Removenode" -> state # "ReadySent"
      [] OTHER -> TRUE

\* The state each arm of process_network_command moves to.
StateAfterHello == "AuthSent"
\* Mutant: AuthAccept moves straight to ReadySent.
StateAfterAuthAccept_skip == "ReadySent"
StateAfterAuthAccept == "Init2Sent"
StateAfterAnnounceMedia == "ReadySent"

\* A command that is invalid for the state: logged, nothing else.
Ignored(cmd) ==
    /\ UNCHANGED << conn_vars, to_main >>
    /\ Received(cmd, TRUE)

\* Mutant: the six neighbours are submitted whether present or not.
generate_mapblock_with_neighbors_all(st, mg, m, blockpos) ==
    IF st # "ReadySent" \/ ~is_some(mg) \/ ~is_some(get_block(m, blockpos)) THEN None
    ELSE Some(<< blockpos >> \o
              [i \in 1..6 |-> unwrap(checked_add(blockpos, NEIGHBOR_DIRS[i]))])

\* generate_mapblock_with_neighbors: the mapblocks submitted, in order; None
\* when the assertion or one of the unwraps fails.
generate_mapblock_with_neighbors(st, mg, m, blockpos) ==
    IF st # "ReadySent" \/ ~is_some(mg) \/ ~is_some(get_block(m, blockpos)) THEN None
    ELSE Some(<< blockpos >> \o
              SelectSeq([i \in 1..6 |-> unwrap(checked_add(blockpos, NEIGHBOR_DIRS[i]))],
                        LAMBDA n : is_some(get_block(m, n))))

\* The tail of Blockdata, Addnode and Removenode once the map has become m.
Remesh(m, blockpos) ==
    LET jobs == generate_mapblock_with_neighbors(state, meshgen, m, blockpos)
    IN  IF is_some(jobs)
        THEN pending' = unwrap(jobs) /\ UNCHANGED task
        ELSE pending' = << >> /\ task' = "panicked"

Hello(cmd) ==
    /\ cmd.kind = "Hello"
    /\ IF InvalidForState(cmd) THEN Ignored(cmd)
       ELSE IF cmd.first_srp
       THEN \E ok \in BOOLEAN :
              /\ IF ok THEN /\ sent' = Append(sent, [kind |-> "FirstSrp"])
                            /\ state' = StateAfterHello
                            /\ UNCHANGED task
                 ELSE task' = "disconnected" /\ UNCHANGED << sent, state >>
              /\ Received(cmd, ok)
              /\ UNCHANGED << map, node_def, media, meshgen, pending, running, clock,
                              ties, to_main >>
       ELSE /\ task' = "panicked"
            /\ Received(cmd, FALSE)
            /\ UNCHANGED << state, map, node_def, media, meshgen, sent, pending,
                            running, clock, ties, to_main >>

AuthAccept(cmd) ==
    /\ cmd.kind = "AuthAccept"
    /\ IF InvalidForState(cmd) THEN Ignored(cmd)
       ELSE \E ok \in BOOLEAN :
              /\ IF ok THEN /\ sent' = Append(sent, [kind |-> "Init2", lang |-> "en"])
                            /\ state' = StateAfterAuthAccept
                            /\ UNCHANGED task
                 ELSE task' = "disconnected" /\ UNCHANGED << sent, state >>
              /\ Received(cmd, ok)
              /\ UNCHANGED << map, node_def, media, meshgen, pending, running, clock,
                              ties, to_main >>

Nodedef(cmd) ==
    /\ cmd.kind = "Nodedef"
    /\ IF InvalidForState(cmd) THEN Ignored(cmd)
       ELSE /\ node_def' = Some(from_network(cmd.node_def))
            /\ Received(cmd, TRUE)
            /\ UNCHANGED << state, task, map, media, meshgen, sent, pending, running,
                            clock, ties, to_main >>

AnnounceMedia(cmd) ==
    /\ cmd.kind = "AnnounceMedia"
    /\ IF InvalidForState(cmd) THEN Ignored(cmd)
       ELSE IF ~is_some(node_def)
       THEN \* self.node_def.take().unwrap() panics
            /\ media' = Some(cmd.files)
            /\ task' = "panicked"
            /\ Received(cmd, FALSE)
            /\ UNCHANGED << state, map, node_def, meshgen, sent, pending, running,
                            clock, ties, to_main >>
       ELSE IF LoadedTextures(unwrap(node_def), cmd.files) = {}
       THEN \* Meshgen::new: NonZero::new(0).unwrap() panics
            /\ node_def' = None
            /\ task' = "panicked"
            /\ Received(cmd, FALSE)
            /\ UNCHANGED << state, map, media, meshgen, sent, pending, running,
                            clock, ties, to_main >>
       ELSE \E tm \in TextureMaps(LoadedTextures(unwrap(node_def), cmd.files)),
               ok \in BOOLEAN :
              /\ node_def' = None
              /\ meshgen' = Some([ node_def |-> StripMissingTiles(unwrap(node_def), cmd.files),
                                   texture_map |-> tm ])
              /\ to_main' = Append(to_main, [kind |-> "MapblockTextureData"])
              /\ IF ok THEN /\ sent' = Append(sent, [kind |-> "ClientReady"])
                            /\ state' = StateAfterAnnounceMedia
                            /\ UNCHANGED task
                 ELSE task' = "disconnected" /\ UNCHANGED << sent, state >>
              /\ Received(cmd, ok)
              /\ UNCHANGED << map, media, pending, running, clock, ties >>

\* Mutant: the yaw is forwarded as received.
MovePlayerPos_yaw_kept(cmd) ==
    [pos |-> VecDiv(cmd.pos, BS), yaw |-> cmd.yaw, pitch |-> cmd.pitch]

\* The PlayerPos forwarded for a MovePlayer.
MovePlayerPos(cmd) == [pos |-> VecDiv(cmd.pos, BS), yaw |-> -cmd.yaw, pitch |-> cmd.pitch]

MovePlayer(cmd) ==
    /\ cmd.kind = "MovePlayer"
    /\ IF InvalidForState(cmd) THEN Ignored(cmd)
       ELSE /\ to_main' = Append(to_main, [kind |-> "PlayerPos", pos |-> MovePlayerPos(cmd)])
            /\ Received(cmd, TRUE)
            /\ UNCHANGED conn_vars

\* Mutant: the mapblock is inserted before GotBlocks is sent.
Blockdata_insert_first(cmd) ==
    /\ cmd.kind = "Blockdata"
    /\ IF InvalidForState(cmd) THEN Ignored(cmd)
       ELSE \E ok \in BOOLEAN :
              /\ map' = insert_block(map, cmd.pos, cmd.nodes)
              /\ IF ok
                 THEN /\ sent' = Append(sent, [kind |-> "GotBlocks", blocks |-> << cmd.pos >>])
                      /\ Remesh(map', cmd.pos)
                 ELSE task' = "disconnected" /\ UNCHANGED << sent, pending >>
              /\ Received(cmd, ok)
              /\ UNCHANGED << state, node_def, media, meshgen, running, clock, ties,
                              to_main >>

Blockdata(cmd) ==
    /\ cmd.kind = "Blockdata"
    /\ IF InvalidForState(cmd) THEN Ignored(cmd)
       ELSE \E ok \in BOOLEAN :
              /\ IF ok
                 THEN /\ sent' = Append(sent, [kind |-> "GotBlocks", blocks |-> << cmd.pos >>])
                      /\ map' = insert_block(map, cmd.pos, cmd.nodes)
                      /\ Remesh(map', cmd.pos)
                 ELSE task' = "disconnected" /\ UNCHANGED << sent, map, pending >>
              /\ Received(cmd, ok)
              /\ UNCHANGED << state, node_def, media, meshgen, running, clock, ties,
                              to_main >>

\* Mutant: the node is set and generate_mapblock_with_neighbors is not called.
SetNodeAndRemesh_no_remesh(cmd, node) ==
    /\ map' = set_node(map, cmd.pos, node)[1]
    /\ Received(cmd, TRUE)
    /\ UNCHANGED << state, task, node_def, media, meshgen, sent, pending, running,
                    clock, ties, to_main >>

\* Addnode and Removenode after the state check: set_node, then the remesh.
SetNodeAndRemesh(cmd, node) ==
    LET r == set_node(map, cmd.pos, node)
    IN  /\ map' = r[1]
        /\ IF is_some(r[2]) THEN Remesh(map', unwrap(r[2]))
           ELSE UNCHANGED << pending, task >>
        /\ Received(cmd, TRUE)
        /\ UNCHANGED << state, node_def, media, meshgen, sent, running, clock, ties,
                        to_main >>

Addnode(cmd) ==
    /\ cmd.kind = "Addnode"
    /\ IF InvalidForState(cmd) THEN Ignored(cmd)
       ELSE SetNodeAndRemesh(cmd, cmd.node)

Removenode(cmd) ==
    /\ cmd.kind = "Removenode"
    /\ IF InvalidForState(cmd) THEN Ignored(cmd)
       ELSE SetNodeAndRemesh(cmd, AIR_NODE)

\* Any other command: the `_ => ()` arm.
OtherCommand(cmd) ==
    /\ cmd.kind = "Other"
    /\ Ignored(cmd)

\* run_inner, the first select! arm: one command from the server.
ProcessNetworkCommand ==
    /\ Idle
    /\ ncmds < MaxCmds
    /\ \E cmd \in Commands :
         \/ Hello(cmd)
         \/ AuthAccept(cmd)
         \/ Nodedef(cmd)
         \/ AnnounceMedia(cmd)
         \/ MovePlayer(cmd)
         \/ Blockdata(cmd)
         \/ Addnode(cmd)
         \/ Removenode(cmd)
         \/ OtherCommand(cmd)
    /\ UNCHANGED << to_client, main_vars >>

\* run_inner, the second select! arm, and process_main_event.
ProcessMainEvent ==
    /\ Idle
    /\ to_client # << >>
    /\ to_client' = Tail(to_client)
    /\ \E ok \in BOOLEAN :
         IF ok
         THEN /\ sent' = Append(sent, [ kind |-> "Playerpos",
                                        position |-> VecScale(Head(to_client).pos, BS),
                                        yaw |-> -Head(to_client).yaw,
                                        pitch |-> Head(to_client).pitch ])
              /\ UNCHANGED task
         ELSE task' = "disconnected" /\ UNCHANGED sent
    /\ UNCHANGED << state, map, node_def, media, meshgen, pending, running, clock, ties >>
    /\ UNCHANGED << to_main, main_vars, hist_vars >>

(***************************************************************************)
(* Meshgen::submit and the meshgen task (meshgen.rs).                      *)
(***************************************************************************)
\* Instant::now(): no earlier than the previous reading, and at most MaxTies
\* times the same instant as the previous reading.
InstantNow ==
    { clock + 1 } \cup (IF ties < MaxTies /\ job_log # << >> THEN { clock } ELSE {})

\* A mesh with the index in job_log of the submit call that produced it.
Tagged(mesh, job) == [job |-> job] @@ mesh

MapblockMeshEvent(mesh, job) == [kind |-> "MapblockMesh", mesh |-> Tagged(mesh, job)]

\* Meshgen::submit / MeshgenTask::spawn for the next mapblock of
\* generate_mapblock_with_neighbors, up to the call of pool.install.
Submit ==
    /\ task = "running"
    /\ pending # << >>
    /\ running = None
    /\ \E t \in InstantNow :
         LET blockpos == Head(pending)
             block == map[blockpos]
             job == Len(job_log) + 1
         IN  /\ clock' = t
             /\ ties' = IF t = clock THEN ties + 1 ELSE ties
             /\ pending' = Tail(pending)
             /\ cmd_jobs' = Append(cmd_jobs, blockpos)
             /\ IF is_empty_block(block)
                THEN /\ to_main' = Append(to_main,
                                          MapblockMeshEvent(empty_mesh(blockpos, t), job))
                     /\ running' = None
                     /\ job_log' = Append(job_log, [ blockpos |-> blockpos, t |-> t,
                                                     path |-> "fast", events |-> 1,
                                                     world |-> map ])
                ELSE /\ running' = Some([ node_def |-> unwrap(meshgen).node_def,
                                          texture_map |-> unwrap(meshgen).texture_map,
                                          data |-> MeshgenMapData_new(map, blockpos, block),
                                          timestamp_task_spawned |-> t ])
                     /\ job_log' = Append(job_log, [ blockpos |-> blockpos, t |-> t,
                                                     path |-> "spawned", events |-> 0,
                                                     world |-> map ])
                     /\ UNCHANGED to_main
    /\ UNCHANGED << state, task, map, node_def, media, meshgen, sent >>
    /\ UNCHANGED << to_client, main_vars, ncmds, last, script >>

\* Mutant: the task holds a reference to the map, and the snapshot is made when
\* the closure runs on the pool.
PoolInstall_live ==
    /\ is_some(running)
    /\ LET blockpos == unwrap(running).data.blockpos
           meshes == generate([unwrap(running) EXCEPT
                                  !.data = MeshgenMapData_new(map, blockpos, map[blockpos])])
           job == Len(job_log)
       IN  /\ to_main' = to_main \o
                         [i \in 1 .. Len(meshes) |-> MapblockMeshEvent(meshes[i], job)]
           /\ job_log' = [job_log EXCEPT ![job] =
                             [@ EXCEPT !.path = IF meshes[1].num_indices = 0 THEN "late"
                                                ELSE "populated",
                                       !.events = @ + Len(meshes)]]
    /\ running' = None
    /\ UNCHANGED << state, task, map, node_def, media, meshgen, sent, pending, clock, ties >>
    /\ UNCHANGED << to_client, main_vars, ncmds, last, cmd_jobs, script >>

\* The closure given to pool.install: MeshgenTask::generate on a pool thread.
\* pool.install returns, and with it Meshgen::submit, when the closure has returned.
PoolInstall ==
    /\ is_some(running)
    /\ LET meshes == generate(unwrap(running))
           job == Len(job_log)
       IN  /\ to_main' = to_main \o
                         [i \in 1 .. Len(meshes) |-> MapblockMeshEvent(meshes[i], job)]
           /\ job_log' = [job_log EXCEPT ![job] =
                             [@ EXCEPT !.path = IF meshes[1].num_indices = 0 THEN "late"
                                                ELSE "populated",
                                       !.events = @ + Len(meshes)]]
    /\ running' = None
    /\ UNCHANGED << state, task, map, node_def, media, meshgen, sent, pending, clock, ties >>
    /\ UNCHANGED << to_client, main_vars, ncmds, last, cmd_jobs, script >>

(***************************************************************************)
(* The main task (main.rs).                                                *)
(***************************************************************************)
\* The main task's state as a record, for the loop of about_to_wait.
MainState ==
    [ main_task |-> main_task,
      mapblock_texture_data |-> mapblock_texture_data,
      remesh_counter_total |-> remesh_counter_total,
      remesh_counter |-> remesh_counter,
      mapblock_meshes |-> mapblock_meshes,
      camera_pos |-> camera_pos,
      delivered |-> delivered ]

\* Mutant: setup_mapblock_rendering does not store the texture data.
process_event_no_setup(st, event) ==
    IF event.kind = "PlayerPos"
    THEN [st EXCEPT !.camera_pos = event.pos]
    ELSE IF event.kind = "MapblockTextureData"
    THEN st
    ELSE IF ~is_some(st.mapblock_texture_data)
         THEN [st EXCEPT !.main_task = "panicked"]
         ELSE [st EXCEPT !.remesh_counter_total = @ + 1,
                         !.remesh_counter = count_remesh(@, event.mesh.blockpos),
                         !.mapblock_meshes = insert_mapblock_mesh(@, event.mesh),
                         !.delivered = Append(@, event.mesh)]

\* One iteration of the loop of about_to_wait.
process_event(st, event) ==
    IF event.kind = "PlayerPos"
    THEN [st EXCEPT !.camera_pos = event.pos]
    ELSE IF event.kind = "MapblockTextureData"
    THEN \* setup_mapblock_rendering
         IF is_some(st.mapblock_texture_data)
         THEN [st EXCEPT !.main_task = "panicked"]
         ELSE [st EXCEPT !.mapblock_texture_data = Some("data")]
    ELSE \* insert_mapblock_mesh
         IF ~is_some(st.mapblock_texture_data)
         THEN [st EXCEPT !.main_task = "panicked"]
         ELSE [st EXCEPT !.remesh_counter_total = @ + 1,
                         !.remesh_counter = count_remesh(@, event.mesh.blockpos),
                         !.mapblock_meshes = insert_mapblock_mesh(@, event.mesh),
                         !.delivered = Append(@, event.mesh)]

\* The loop of about_to_wait: <<the main task's state, the events left in the channel>>.
RECURSIVE drain(_, _)
drain(st, events) ==
    IF events = << >> \/ st.main_task # "running" THEN << st, events >>
    ELSE drain(process_event(st, Head(events)), Tail(events))

SetMainState(st) ==
    /\ main_task' = st.main_task
    /\ mapblock_texture_data' = st.mapblock_texture_data
    /\ remesh_counter_total' = st.remesh_counter_total
    /\ remesh_counter' = st.remesh_counter
    /\ mapblock_meshes' = st.mapblock_meshes
    /\ camera_pos' = st.camera_pos
    /\ delivered' = st.delivered

\* App::about_to_wait with a non-empty channel.
AboutToWait ==
    /\ main_task = "running"
    /\ to_main # << >>
    /\ LET r == drain(MainState, to_main)
       IN  to_main' = r[2] /\ SetMainState(r[1])
    /\ UNCHANGED << conn_vars, to_client, main_events, hist_vars >>

\* The connection task has ended (run has returned, or the task has unwound):
\* the runner, and with it main_rx, has been dropped.
main_rx_dropped == task \in { "disconnected", "panicked" }

\* State::render, the part that samples the player position every 0.1 s.
\* client_tx.send(..).unwrap() panics when main_rx has been dropped.
Render ==
    /\ main_task = "running"
    /\ main_events < MaxMainEvents
    /\ main_events' = main_events + 1
    /\ IF main_rx_dropped
       THEN main_task' = "panicked" /\ UNCHANGED to_client
       ELSE to_client' = Append(to_client, camera_pos) /\ UNCHANGED main_task
    /\ UNCHANGED << conn_vars, to_main, hist_vars >>
    /\ UNCHANGED << mapblock_texture_data, remesh_counter_total,
                    remesh_counter, mapblock_meshes, camera_pos, delivered >>

Next ==
    \/ SendInit
    \/ RecvFail
    \/ ProcessNetworkCommand
    \/ ProcessMainEvent
    \/ Submit
    \/ PoolInstall
    \/ AboutToWait
    \/ Render

Spec == Init /\ [][Next]_vars

(***************************************************************************)
(* The reconciler alone: the main task after the handshake, receiving      *)
(* MapblockMeshes with arbitrary mapblocks and timestamps, in any order.   *)
(***************************************************************************)
InitReconciler ==
    /\ state = "ReadySent"
    /\ task = "running"
    /\ map = << >>
    /\ node_def = None
    /\ media = None
    /\ meshgen = Some([ node_def |-> StripMissingTiles(from_network(NodeDefInput),
                                                       { "stone.png" }),
                        texture_map |-> ("stone.png" :> 0) ])
    /\ sent = << [kind |-> "Init"], [kind |-> "FirstSrp"],
                 [kind |-> "Init2", lang |-> "en"], [kind |-> "ClientReady"] >>
    /\ pending = << >>
    /\ running = None
    /\ clock = 0
    /\ ties = 0
    /\ to_main = << >>
    /\ to_client = << >>
    /\ main_task = "running"
    /\ mapblock_texture_data = Some("data")
    /\ remesh_counter_total = 0
    /\ remesh_counter = << >>
    /\ mapblock_meshes = << >>
    /\ camera_pos = [pos |-> ZERO, yaw |-> 0, pitch |-> 0]
    /\ main_events = 0
    /\ ncmds = Len(Script)
    /\ last = [kind |-> "AnnounceMedia", files |-> { "stone.png" }]
    /\ cmd_jobs = << >>
    /\ job_log = << >>
    /\ delivered = << >>
    /\ script = Len(Script)

\* about_to_wait receives one MapblockMesh.
DeliverMesh ==
    /\ main_task = "running"
    /\ Len(delivered) < MaxDeliveries
    /\ \E blockpos \in BlockPositions, t \in 0 .. MaxTimestamp :
         LET event == MapblockMeshEvent(empty_mesh(blockpos, t), Len(delivered) + 1)
         IN  SetMainState(drain(MainState, << event >>)[1])
    /\ UNCHANGED << conn_vars, to_main, to_client, main_events, hist_vars >>

NextReconciler == DeliverMesh

SpecReconciler == InitReconciler /\ [][NextReconciler]_vars

(***************************************************************************)
(* The meshgen alone: Meshgen::submit for mapblock (0,0,0) of a map drawn   *)
(* from a set of maps, after the handshake.                                *)
(***************************************************************************)
\* The 2x2x2 corner at local coordinates 0..1 is solid, the rest is air.
Corner ==
    [i \in 0 .. (NumNodes - 1) |->
        IF (i % SIZE) < 2 /\ ((i \div SIZE) % SIZE) < 2 /\ (i \div (SIZE * SIZE)) < 2
        THEN MapNode(1) ELSE AIR_NODE]

\* Along +X from (0,0,0): stone, plant, ignore; an undefined content at (0,1,0).
Mixed ==
    [i \in 0 .. (NumNodes - 1) |->
        IF i = 0 THEN MapNode(1)
        ELSE IF i = 1 THEN MapNode(2)
        ELSE IF i = 2 THEN MapNode(CONTENT_IGNORE)
        ELSE IF i = SIZE THEN MapNode(3)
        ELSE AIR_NODE]

AllPlant == [i \in 0 .. (NumNodes - 1) |-> MapNode(2)]

\* The block with param1 of every node set to its index and param2 to k, so that
\* every node of a map tells where it is stored.
Marked(block, k) ==
    [i \in DOMAIN block |-> [block[i] EXCEPT !.param1 = i, !.param2 = k]]

CentreBlocks == { AllAir, AllSolid, Corner, Mixed }
\* The blocks a neighbour may hold: air or stone, and plants too in +X.
NeighborBlocks(i) == IF NEIGHBOR_DIRS[i] = << 1, 0, 0 >>
                     THEN { AllAir, AllSolid, AllPlant } ELSE { AllAir, AllSolid }

\* The map with centre block c at (0,0,0) and, for each i in the domain of n,
\* the block n[i] at NEIGHBOR_DIRS[i].
World(c, n) ==
    [p \in { ZERO } \cup { NEIGHBOR_DIRS[i] : i \in DOMAIN n } |->
        IF p = ZERO THEN Marked(c, 0)
        ELSE LET i == CHOOSE j \in DOMAIN n : NEIGHBOR_DIRS[j] = p
             IN  Marked(n[i], i)]

MeshgenWorlds ==
    UNION { { World(c, n) : c \in CentreBlocks,
                            n \in { f \in [D -> { AllAir, AllSolid, AllPlant }] :
                                      \A i \in D : f[i] \in NeighborBlocks(i) } } :
            D \in SUBSET (1 .. 6) }

\* The state after the handshake and a Blockdata for (0,0,0), with map m, when
\* generate_mapblock_with_neighbors is about to submit (0,0,0).
InitWorld(m) ==
    /\ state = "ReadySent"
    /\ task = "running"
    /\ map = m
    /\ node_def = None
    /\ media = None
    /\ meshgen = Some([ node_def |-> StripMissingTiles(from_network(NodeDefInput),
                                                       { "stone.png" }),
                        texture_map |-> ("stone.png" :> 0) ])
    /\ sent = << [kind |-> "Init"], [kind |-> "FirstSrp"],
                 [kind |-> "Init2", lang |-> "en"], [kind |-> "ClientReady"],
                 [kind |-> "GotBlocks", blocks |-> << ZERO >>] >>
    /\ pending = << ZERO >>
    /\ running = None
    /\ clock = 0
    /\ ties = 0
    /\ to_main = << >>
    /\ to_client = << >>
    /\ main_task = "running"
    /\ mapblock_texture_data = Some("data")
    /\ remesh_counter_total = 0
    /\ remesh_counter = << >>
    /\ mapblock_meshes = << >>
    /\ camera_pos = [pos |-> ZERO, yaw |-> 0, pitch |-> 0]
    /\ main_events = 0
    /\ ncmds = Len(Script) + 1
    /\ last = [kind |-> "Blockdata", pos |-> ZERO, nodes |-> m[ZERO]]
    /\ cmd_jobs = << >>
    /\ job_log = << >>
    /\ delivered = << >>
    /\ script = Len(Script)

InitMeshgen == \E m \in MeshgenWorlds : InitWorld(m)

NextMeshgen == Submit \/ PoolInstall

SpecMeshgen == InitMeshgen /\ [][NextMeshgen]_vars

(***************************************************************************)
(* The snapshot alone: a MeshgenTask that owns its MeshgenMapData, and the  *)
(* owner of the LuantiMap changing the map before the task has run.        *)
(***************************************************************************)
SnapshotWorlds ==
    UNION { { World(c, n) : c \in { AllSolid, Mixed },
                            n \in [D -> { AllAir, AllSolid }] } :
            D \in SUBSET { 1, 3 } }

InitSnapshot == \E m \in SnapshotWorlds : InitWorld(m)

\* The changes of the map: a mapblock inserted at (0,0,0), in +Y or in +X, or a
\* node set in one of these mapblocks.
ChangeBlockPositions == { ZERO, << 0, 1, 0 >>, << 1, 0, 0 >> }
ChangeNodePositions == { ZERO, << 0, SIZE, 0 >>, << SIZE, 0, 0 >> }

\* LuantiMap::insert_block or LuantiMap::set_node on the map a snapshot was made
\* of, while the MeshgenTask holding the snapshot has not run yet.
ChangeMap ==
    /\ is_some(running)
    /\ ncmds < Len(Script) + 1 + MaxChanges
    /\ \/ \E p \in ChangeBlockPositions, b \in { AllAir, AllSolid } :
            /\ map' = insert_block(map, p, b)
            /\ last' = [kind |-> "insert_block", pos |-> p, nodes |-> b]
       \/ \E p \in ChangeNodePositions, n \in { AIR_NODE, MapNode(1) } :
            /\ map' = set_node(map, p, n)[1]
            /\ last' = [kind |-> "set_node", pos |-> p, node |-> n]
    /\ ncmds' = ncmds + 1
    /\ UNCHANGED << state, task, node_def, media, meshgen, sent, pending, running,
                    clock, ties >>
    /\ UNCHANGED << to_main, to_client, main_vars, cmd_jobs, job_log, script >>

NextSnapshot == Submit \/ ChangeMap \/ PoolInstall

SpecSnapshot == InitSnapshot /\ [][NextSnapshot]_vars

(***************************************************************************)
(* The map alone: insert_block and set_node on a LuantiMap, from empty.     *)
(***************************************************************************)
MapBlockInputs == { AllAir, Mixed }

\* Nodes in (0,0,0), in (1,0,0), in (0,-1,0) and in (-1,0,0), which is never present.
MapNodePositions ==
    { << 1, 2, 0 >>, << SIZE, 0, 0 >>, << 0, -1, SIZE - 1 >>, << -1, 0, 0 >> }

\* LuantiMap::insert_block applied to the map; `replaced` tells whether the
\* mapblock was present before.
MapInsertBlock ==
    /\ ncmds < MaxMapOps
    /\ \E p \in BlockPositions, b \in MapBlockInputs :
         /\ map' = insert_block(map, p, b)
         /\ last' = [kind |-> "insert_block", pos |-> p, nodes |-> b,
                     replaced |-> p \in DOMAIN map]
    /\ ncmds' = ncmds + 1
    /\ UNCHANGED << state, task, node_def, media, meshgen, sent, pending, running,
                    clock, ties >>
    /\ UNCHANGED << to_main, to_client, main_vars, cmd_jobs, job_log, script >>

\* LuantiMap::set_node applied to the map; `result` is what it returned.
MapSetNode ==
    /\ ncmds < MaxMapOps
    /\ \E p \in MapNodePositions, n \in { MapNode(1), MapNode(2) } :
         /\ map' = set_node(map, p, n)[1]
         /\ last' = [kind |-> "set_node", pos |-> p, node |-> n,
                     result |-> set_node(map, p, n)[2]]
    /\ ncmds' = ncmds + 1
    /\ UNCHANGED << state, task, node_def, media, meshgen, sent, pending, running,
                    clock, ties >>
    /\ UNCHANGED << to_main, to_client, main_vars, cmd_jobs, job_log, script >>

NextMap == MapInsertBlock \/ MapSetNode

SpecMap == Init /\ [][NextMap]_vars

(***************************************************************************)
(* Properties.                                                             *)
(***************************************************************************)
Max(S) == CHOOSE x \in S : \A y \in S : y <= x

\* The positions in `log` of the records for mapblock k.
IndicesOf(log, k) == { i \in 1 .. Len(log) : log[i].blockpos = k }

\* C1: reconciler monotonicity. At every state, for every mapblock, the table
\* holds an entry exactly if a mesh for it has been delivered to
\* insert_mapblock_mesh; the entry is one of the delivered meshes and its
\* timestamp is the maximum of the timestamps delivered so far for that mapblock.
C1_ReconcilerMonotonic ==
    \A k \in BlockPositions :
        LET D == IndicesOf(delivered, k)
        IN  IF D = {} THEN k \notin DOMAIN mapblock_meshes
            ELSE /\ k \in DOMAIN mapblock_meshes
                 /\ \E i \in D : mapblock_meshes[k] = delivered[i]
                 /\ mapblock_meshes[k].timestamp_task_spawned
                      = Max({ delivered[i].timestamp_task_spawned : i \in D })

\* C1 witness: a mesh with a smaller timestamp was delivered after one with a
\* greater timestamp for the same mapblock, and MaxDeliveries meshes were delivered.
C1_Witness ==
    /\ Len(delivered) = MaxDeliveries
    /\ \E i, j \in 1 .. Len(delivered) :
         /\ i < j
         /\ delivered[i].blockpos = delivered[j].blockpos
         /\ delivered[i].timestamp_task_spawned > delivered[j].timestamp_task_spawned

\* Every submitted job has run, and the main task has reconciled every result.
Settled == pending = << >> /\ running = None /\ to_main = << >> /\ main_task = "running"

\* C2: once every submitted job's result has been reconciled, the mesh stored
\* for each mapblock is the result of the job submitted last for that mapblock.
C2_LatestJobWins ==
    Settled =>
        \A k \in BlockPositions :
            IndicesOf(job_log, k) # {} =>
                /\ k \in DOMAIN mapblock_meshes
                /\ mapblock_meshes[k].job = Max(IndicesOf(job_log, k))

\* C3: the connection state moves forward only, one position at a time.
Rank(st) ==
    CASE st = "Connected" -> 0
      [] st = "AuthSent" -> 1
      [] st = "Init2Sent" -> 2
      [] st = "ReadySent" -> 3

C3_ForwardOneStep == [][state' # state => Rank(state') = Rank(state) + 1]_vars

\* C3 witness: the state has moved all the way to ReadySent.
C3_Witness == state = "ReadySent" /\ ncmds = MaxCmds

\* The state in which the spec says a command is valid.
ValidState(kind) ==
    CASE kind = "Hello" -> "Connected"
      [] kind = "AuthAccept" -> "AuthSent"
      [] kind \in { "Nodedef", "AnnounceMedia" } -> "Init2Sent"
      [] kind \in { "MovePlayer", "Blockdata", "Addnode", "Removenode" } -> "ReadySent"

StateChecked == { "Hello", "AuthAccept", "Nodedef", "AnnounceMedia",
                  "MovePlayer", "Blockdata", "Addnode", "Removenode" }

\* The step processes a network command (the command is last').
CommandStep == ncmds' # ncmds

\* C4: a command received in a state other than the one it is valid in changes
\* nothing: not the connection state, the map, the node definitions, the
\* meshgen, the submitted jobs, the commands sent to the server or the events
\* sent to the main task; and the connection task keeps running.
C4_WrongStateIgnored ==
    [][ (CommandStep /\ last'.kind \in StateChecked /\ state # ValidState(last'.kind))
          => /\ UNCHANGED << state, map, node_def, media, meshgen, sent, to_main >>
             /\ UNCHANGED << pending, running, job_log >>
             /\ task' = "running" ]_vars

\* C4 witness: a Hello was ignored in ReadySent, with a map and a mesh table
\* that are not empty.
C4_Witness ==
    /\ last.kind = "Hello" /\ state = "ReadySent"
    /\ DOMAIN map # {} /\ DOMAIN mapblock_meshes # {}

\* The states the script Hello, AuthAccept, Nodedef, AnnounceMedia passes through.
ScriptStates == << "Connected", "AuthSent", "Init2Sent", "Init2Sent", "ReadySent" >>

MoveStep == CommandStep /\ last'.kind = "MovePlayer"

\* The PlayerPos a MovePlayer is claimed to carry: the coordinates as received.
CoordinatesAsReceived(cmd) == [pos |-> cmd.pos, yaw |-> cmd.yaw, pitch |-> cmd.pitch]

\* The PlayerPos a MovePlayer carries: position / 10, yaw negated, pitch kept.
CoordinatesConverted(cmd) ==
    [pos |-> << cmd.pos[1] \div 10, cmd.pos[2] \div 10, cmd.pos[3] \div 10 >>,
     yaw |-> 0 - cmd.yaw, pitch |-> cmd.pitch]

\* The part of C5 that does not depend on the coordinates.
C5_Progress ==
    /\ script' \in 0 .. Len(Script) => state' = ScriptStates[script' + 1]
    /\ (MoveStep /\ state # "ReadySent") => state' = state /\ to_main' = to_main

FaceDirs == { d \in { -1, 0, 1 } \X { -1, 0, 1 } \X { -1, 0, 1 } :
                (d[1] * d[1]) + (d[2] * d[2]) + (d[3] * d[3]) = 1 }

\* The mapblocks the spec says are remeshed for a change of mapblock p.
RemeshSet(p) == { p } \cup ({ VecAdd(p, d) : d \in FaceDirs } \cap DOMAIN map)

\* The commands sent to the server of kind GotBlocks, in order.
GotBlocksSent == SelectSeq(sent, LAMBDA c : c.kind = "GotBlocks")

\* The faces of the stored mesh of mapblock k in direction d.
StoredFaces(k, d) ==
    IF k \in DOMAIN mapblock_meshes /\ is_some(mapblock_meshes[k].vertex_buffer)
    THEN { q \in 1 .. Len(unwrap(mapblock_meshes[k].vertex_buffer)) :
             NEIGHBOR_DIRS[unwrap(mapblock_meshes[k].vertex_buffer)[q].face_index + 1] = d }
    ELSE {}

\* Exactly two Blockdata were handled: all solid for a, all air for b, in either
\* order, and nothing else has changed the map or submitted a job.
TwoInsertions(a, b) ==
    /\ Len(GotBlocksSent) = 2
    /\ { GotBlocksSent[1].blocks, GotBlocksSent[2].blocks } = { << a >>, << b >> }
    /\ DOMAIN map = { a, b } /\ map[a] = AllSolid /\ map[b] = AllAir
    /\ Len(job_log) + Len(pending) = 3

\* C6: remesh completeness. When a solid mapblock a and an air mapblock b next
\* to it have been inserted by two Blockdata in either order and every job has
\* been reconciled, the mesh stored for a has the SIZE * SIZE faces toward b.
C6_RemeshComplete ==
    \A b \in BlockPositions \ { ZERO } :
        (Settled /\ TwoInsertions(ZERO, b))
            => Cardinality(StoredFaces(ZERO, b)) = SIZE * SIZE

\* C7: remesh triggering. For the last Blockdata, Addnode or Removenode handled
\* in ReadySent that changed mapblock p, the mapblocks submitted to the meshgen
\* are, each at most once, among p and the present face neighbours of p; and
\* are exactly those, each once, when generate_mapblock_with_neighbors is done.
ChangedBlock == IF last.kind = "Blockdata" THEN last.pos
                ELSE << last.pos[1] \div SIZE, last.pos[2] \div SIZE, last.pos[3] \div SIZE >>

C7_RemeshTriggering ==
    (/\ state = "ReadySent" /\ task = "running"
     /\ last.kind \in { "Blockdata", "Addnode", "Removenode" }
     /\ ChangedBlock \in DOMAIN map)
        => /\ \A i, j \in 1 .. Len(cmd_jobs) : i # j => cmd_jobs[i] # cmd_jobs[j]
           /\ { cmd_jobs[i] : i \in 1 .. Len(cmd_jobs) } \subseteq RemeshSet(ChangedBlock)
           /\ Len(cmd_jobs) + Len(pending) \in 1 .. 7
           /\ (pending = << >> /\ running = None)
                => { cmd_jobs[i] : i \in 1 .. Len(cmd_jobs) } = RemeshSet(ChangedBlock)

\* C7 witness: a change of a mapblock with a present neighbour has submitted
\* the mapblock and the neighbour, and both jobs are done.
C7_Witness ==
    /\ state = "ReadySent" /\ task = "running"
    /\ last.kind = "Blockdata" /\ ChangedBlock \in DOMAIN map
    /\ pending = << >> /\ running = None
    /\ Len(cmd_jobs) = 2 /\ cmd_jobs[1] = ChangedBlock

MeshesOfJob(meshes, j) == Cardinality({ i \in 1 .. Len(meshes) : meshes[i].job = j })

MeshesInChannel == SelectSeq(to_main, LAMBDA e : e.kind = "MapblockMesh")

\* C9: every call of Meshgen::submit has produced exactly one MapblockMesh, in
\* the channel or already received by the main task; only the job pool.install
\* is still running has produced none yet.
C9_OneResultPerJob ==
    \A j \in 1 .. Len(job_log) :
        MeshesOfJob(delivered, j)
          + MeshesOfJob([i \in 1 .. Len(MeshesInChannel) |-> MeshesInChannel[i].mesh], j)
        = IF j = Len(job_log) /\ is_some(running) THEN 0 ELSE 1

\* C9 witness: jobs have taken the fast path, the late empty path and the
\* populated path, and all have run.
C9_Witness ==
    /\ running = None /\ pending = << >>
    /\ { job_log[j].path : j \in 1 .. Len(job_log) } = { "fast", "late", "populated" }

\* C10: Meshgen::submit does not wait for the job: while a meshgen task is on
\* the pool and has not sent its result, the connection task can take a step
\* (the next submit, the next command, the next main event, a receive error).
C10_SubmitDoesNotWait ==
    is_some(running) =>
        ENABLED (Submit \/ ProcessNetworkCommand \/ ProcessMainEvent \/ RecvFail)

(***************************************************************************)
(* Properties of the meshgen alone (SpecMeshgen).                          *)
(***************************************************************************)
\* The one job of SpecMeshgen has been submitted and has sent its result.
JobDone == job_log # << >> /\ running = None /\ MeshesInChannel # << >>

\* The mesh the job of SpecMeshgen has sent.
JobMesh == MeshesInChannel[1].mesh

\* The faces of the mesh, each as <<position of the voxel, direction>>.
EmittedFaces ==
    IF is_some(JobMesh.vertex_buffer)
    THEN { << unwrap(JobMesh.vertex_buffer)[q].position,
              NEIGHBOR_DIRS[unwrap(JobMesh.vertex_buffer)[q].face_index + 1] >> :
           q \in 1 .. Len(unwrap(JobMesh.vertex_buffer)) }
    ELSE {}

\* The block coordinate and the index in the block of the voxel at position p.
BlockOf(p) == << p[1] \div SIZE, p[2] \div SIZE, p[3] \div SIZE >>
LocalIndex(p) == ((p[3] % SIZE) * SIZE * SIZE) + ((p[2] % SIZE) * SIZE) + (p[1] % SIZE)

Resolvable(p) == BlockOf(p) \in DOMAIN map
VoxelAt(p) == map[BlockOf(p)][LocalIndex(p)]

\* The positions of the voxels of mapblock (0,0,0).
CentrePositions == (0 .. (SIZE - 1)) \X (0 .. (SIZE - 1)) \X (0 .. (SIZE - 1))

\* The class of a content id: Empty (AirLike), Solid (Normal cuboid), Other.
Classify(c) ==
    LET d == get_with_fallback(unwrap(meshgen).node_def, c).drawtype
    IN  IF d = "AirLike" THEN "Empty" ELSE IF d = "Normal" THEN "Solid" ELSE "Other"

\* The face culling rule when the classes in Through let a face through.
CullingRule(Through) ==
    JobDone =>
        \A pos \in CentrePositions, d \in FaceDirs :
            Classify(VoxelAt(pos).content_id) # "Empty"
                => (<< pos, d >> \in EmittedFaces
                      <=> /\ Resolvable(VecAdd(pos, d))
                          /\ Classify(VoxelAt(VecAdd(pos, d)).content_id) \in Through)

\* C11 as claimed: for a voxel of the centre block that is not empty, the face
\* in direction d is emitted if and only if the voxel at pos+d is resolvable
\* and classified empty; non-cuboid draw types count as solid, so no face is
\* emitted between two adjacent voxels that are both non-empty.
C11_Original == CullingRule({ "Empty" })

\* C11 as amended: the face is emitted if and only if the voxel at pos+d is
\* resolvable and is not a solid cuboid (draw type Normal): empty voxels and
\* voxels of non-cuboid draw types both let the face through, so no face is
\* emitted toward an adjacent solid cuboid voxel.
C11_Amended == CullingRule({ "Empty", "Other" })

\* C11 witness: the stone at (0,0,0) of the mixed block, with the block in -X
\* present and air, has its face toward the plant at (1,0,0) and its face
\* toward the air in -X, and none toward the undefined (unknown) node at (0,1,0).
C11_Witness ==
    /\ JobDone
    /\ map[ZERO] = Marked(Mixed, 0)
    /\ << -1, 0, 0 >> \in DOMAIN map
    /\ << ZERO, << 1, 0, 0 >> >> \in EmittedFaces
    /\ << ZERO, << -1, 0, 0 >> >> \in EmittedFaces
    /\ << ZERO, << 0, 1, 0 >> >> \notin EmittedFaces

\* C12: no face is emitted toward a voxel that lies in a neighbour block absent
\* from the map when the snapshot was built, whatever the voxel itself is.
C12_AbsentNeighbourSuppressed ==
    JobDone => \A f \in EmittedFaces : Resolvable(VecAdd(f[1], f[2]))

\* C12 witness: a solid block with the neighbour in +Y absent and the one in
\* -Y present and air has faces, none of them toward +Y.
C12_Witness ==
    /\ JobDone
    /\ map[ZERO] = Marked(AllSolid, 0)
    /\ << 0, 1, 0 >> \notin DOMAIN map
    /\ << 0, -1, 0 >> \in DOMAIN map
    /\ \E f \in EmittedFaces : f[2] = << 0, -1, 0 >>

\* The three sides of the filled corner that face into the block.
CornerFaces ==
    { f \in ({ 0, 1 } \X { 0, 1 } \X { 0, 1 })
             \X { << 1, 0, 0 >>, << 0, 1, 0 >>, << 0, 0, 1 >> } :
        (f[1][1] * f[2][1]) + (f[1][2] * f[2][2]) + (f[1][3] * f[2][3]) = 1 }

\* C13: for the block with the solid 2x2x2 corner and no neighbour block, the
\* mesh is exactly the 12 quads of the three sides of the corner that face
\* into the block, and num_indices is 72.
C13_CornerScenario ==
    (JobDone /\ DOMAIN map = { ZERO } /\ map[ZERO] = Marked(Corner, 0))
        => /\ JobMesh.num_indices = 72
           /\ JobMesh.index_buffer = Some(72)
           /\ is_some(JobMesh.vertex_buffer)
           /\ Len(unwrap(JobMesh.vertex_buffer)) = 12
           /\ EmittedFaces = CornerFaces
           /\ Cardinality(CornerFaces) = 12

\* C13 witness: the job for the corner block without neighbours is done.
C13_Witness ==
    /\ JobDone /\ DOMAIN map = { ZERO } /\ map[ZERO] = Marked(Corner, 0)
    /\ job_log[1].path = "populated"

\* The task MeshgenTask::spawn would give to the pool for the job of SpecMeshgen.
FullTask ==
    [ node_def |-> unwrap(meshgen).node_def,
      texture_map |-> unwrap(meshgen).texture_map,
      data |-> MeshgenMapData_new(map, job_log[1].blockpos, map[job_log[1].blockpos]),
      timestamp_task_spawned |-> job_log[1].t ]

\* C14: empty fast path equivalence. For a block of air only, the mesh the fast
\* path sends is the one mesh generate would send for that block and its
\* neighbours, present or absent.
C14_FastPathEquivalence ==
    (JobDone /\ is_empty_block(map[ZERO]))
        => /\ job_log[1].path = "fast"
           /\ Len(MeshesInChannel) = 1
           /\ generate(FullTask) = << [ blockpos |-> JobMesh.blockpos,
                                        num_indices |-> JobMesh.num_indices,
                                        index_buffer |-> JobMesh.index_buffer,
                                        vertex_buffer |-> JobMesh.vertex_buffer,
                                        timestamp_task_spawned |->
                                            JobMesh.timestamp_task_spawned ] >>
           /\ JobMesh.num_indices = 0

\* C14 witness: the fast path was taken for an air block between a solid
\* neighbour, an air neighbour and absent neighbours.
C14_Witness ==
    /\ JobDone /\ is_empty_block(map[ZERO])
    /\ << 0, 1, 0 >> \in DOMAIN map /\ map[<< 0, 1, 0 >>] = Marked(AllSolid, 1)
    /\ << 0, -1, 0 >> \in DOMAIN map /\ map[<< 0, -1, 0 >>] = Marked(AllAir, 2)
    /\ Cardinality(DOMAIN map) = 3

\* C15: snapshot locality. For the snapshot of C = (0,0,0) built from a map with
\* blocks at C, C+X and C-Y only, get_node gives the centre block's voxel for
\* every position in range, the voxel of C+X (of C-Y) at the wrapped index one
\* step out in +X (in -Y), and None one step out in +Y, -X, +Z and -Z.
C15_SnapshotLocality ==
    (is_some(running) /\ DOMAIN map = { ZERO, << 1, 0, 0 >>, << 0, -1, 0 >> })
        => LET data == unwrap(running).data
               L == 0 .. (SIZE - 1)
               idx(x, y, z) == (z * SIZE * SIZE) + (y * SIZE) + x
           IN  /\ \A x, y, z \in L :
                    get_node(data, << x, y, z >>) = Some(map[ZERO][idx(x, y, z)])
               /\ \A y, z \in L :
                    get_node(data, << SIZE, y, z >>)
                        = Some(map[<< 1, 0, 0 >>][idx(0, y, z)])
               /\ \A x, z \in L :
                    get_node(data, << x, -1, z >>)
                        = Some(map[<< 0, -1, 0 >>][idx(x, SIZE - 1, z)])
               /\ \A a, b \in L :
                    /\ get_node(data, << a, SIZE, b >>) = None
                    /\ get_node(data, << -1, a, b >>) = None
                    /\ get_node(data, << a, b, SIZE >>) = None
                    /\ get_node(data, << a, b, -1 >>) = None

\* C15 witness: the snapshot of a block with stone, plant, ignore and air
\* between a block of plants in +X and a block of stone in -Y.
C15_Witness ==
    /\ is_some(running)
    /\ DOMAIN map = { ZERO, << 1, 0, 0 >>, << 0, -1, 0 >> }
    /\ map[ZERO] = Marked(Mixed, 0)
    /\ map[<< 1, 0, 0 >>] = Marked(AllPlant, 3)
    /\ map[<< 0, -1, 0 >>] = Marked(AllSolid, 2)
    /\ unwrap(running).data.blockpos = ZERO

(***************************************************************************)
(* Properties of the snapshot alone (SpecSnapshot).                        *)
(***************************************************************************)
\* The faces of mapblock (0,0,0) in the map w: of every voxel that is not empty,
\* those toward a voxel of w that is not a solid cuboid.
FacesIn(w) ==
    { f \in CentrePositions \X FaceDirs :
        /\ Classify(w[ZERO][LocalIndex(f[1])].content_id) # "Empty"
        /\ BlockOf(VecAdd(f[1], f[2])) \in DOMAIN w
        /\ Classify(w[BlockOf(VecAdd(f[1], f[2]))][LocalIndex(VecAdd(f[1], f[2]))].content_id)
             # "Solid" }

\* C16: the snapshot is a point-in-time copy. The mesh of a job is the mesh of
\* the map as it was when the job was submitted (centre block and neighbours),
\* whatever insert_block and set_node did to the map before the job ran.
C16_SnapshotPointInTime ==
    JobDone =>
        /\ EmittedFaces = FacesIn(job_log[1].world)
        /\ JobMesh.num_indices = 6 * Cardinality(FacesIn(job_log[1].world))
        /\ JobMesh.timestamp_task_spawned = job_log[1].t
        /\ JobMesh.blockpos = job_log[1].blockpos

\* C16 witness: the map was changed between the submission and the run of the
\* job in a way that changes the faces of the mapblock.
C16_Witness ==
    /\ JobDone
    /\ map # job_log[1].world
    /\ FacesIn(map) # FacesIn(job_log[1].world)
    /\ last.kind = "set_node"

(***************************************************************************)
(* Properties of the map alone (SpecMap).                                  *)
(***************************************************************************)
SetNodeStep == ncmds' # ncmds /\ last'.kind = "set_node"
InsertBlockStep == ncmds' # ncmds /\ last'.kind = "insert_block"

\* C17: no-op mutation. set_node on a voxel whose mapblock is absent returns
\* None and leaves the map unchanged: the same mapblocks with the same content.
C17_SetNodeAbsent ==
    [][ (SetNodeStep /\ BlockOf(last'.pos) \notin DOMAIN map)
          => /\ last'.result = None
             /\ DOMAIN map' = DOMAIN map
             /\ \A p \in DOMAIN map : map'[p] = map[p] ]_vars

\* C17 witness: set_node was called for a voxel of an absent mapblock next to
\* a present one.
C17_Witness ==
    /\ last.kind = "set_node" /\ last.result = None
    /\ last.pos = << SIZE, 0, 0 >>
    /\ ZERO \in DOMAIN map /\ << 1, 0, 0 >> \notin DOMAIN map

\* C18: set_node on a voxel whose mapblock is present returns the coordinate
\* of that mapblock, makes that voxel the given node, and leaves every other
\* voxel of the mapblock, every other mapblock and the set of mapblocks unchanged.
C18_SetNodePresent ==
    [][ (SetNodeStep /\ BlockOf(last'.pos) \in DOMAIN map)
          => /\ last'.result = Some(BlockOf(last'.pos))
             /\ DOMAIN map' = DOMAIN map
             /\ map'[BlockOf(last'.pos)][LocalIndex(last'.pos)] = last'.node
             /\ \A i \in 0 .. (NumNodes - 1) :
                    i # LocalIndex(last'.pos)
                        => map'[BlockOf(last'.pos)][i] = map[BlockOf(last'.pos)][i]
             /\ \A p \in DOMAIN map :
                    p # BlockOf(last'.pos) => map'[p] = map[p] ]_vars

\* C18 witness: set_node has changed a voxel of the mapblock in -Y, with two
\* mapblocks present.
C18_Witness ==
    /\ last.kind = "set_node" /\ last.result = Some(<< 0, -1, 0 >>)
    /\ Cardinality(DOMAIN map) = 2
    /\ map[<< 0, -1, 0 >>] \notin MapBlockInputs
    /\ map[<< 0, -1, 0 >>][LocalIndex(last.pos)] = last.node

\* C19: insert_block is an unconditional upsert. After insert_block(p, b),
\* get_block(p) is b whether or not p was present, every other coordinate maps
\* to what it mapped to before, and the number of mapblocks has grown by one
\* exactly when p was absent.
C19_InsertBlockUpsert ==
    [][ InsertBlockStep
          => /\ get_block(map', last'.pos) = Some(last'.nodes)
             /\ \A q \in (DOMAIN map) \cup (DOMAIN map') \cup BlockPositions :
                    q # last'.pos => get_block(map', q) = get_block(map, q)
             /\ Cardinality(DOMAIN map')
                  = Cardinality(DOMAIN map) + (IF last'.pos \in DOMAIN map THEN 0 ELSE 1) ]_vars

\* C19 witness: insert_block has replaced a mapblock that was present, next to
\* another mapblock.
C19_Witness ==
    /\ last.kind = "insert_block" /\ last.replaced
    /\ Cardinality(DOMAIN map) = 2
    /\ map[last.pos] = Mixed

(***************************************************************************)
(* Properties of the handshake's failure paths (Spec).                     *)
(***************************************************************************)
\* C20: a Hello received in Connected that offers no supported authentication
\* method ends the session as a disconnect, the outcome of an I/O failure: the
\* connection task ends disconnected, no AuthResponse (FirstSrp) is sent, the
\* state does not advance, and no later command is processed.
C20_UnsupportedAuthDisconnects ==
    [][ (CommandStep /\ last'.kind = "Hello" /\ ~last'.first_srp
         /\ state = "Connected")
          => /\ task' = "disconnected"
             /\ sent' = sent
             /\ state' = state
             /\ ~(ENABLED ProcessNetworkCommand)' ]_vars

(***************************************************************************)
(* Failures, intents and the order of the handshake.                       *)
(***************************************************************************)
\* A send or a receive has failed: run_inner has returned Err.
Failed == task = "disconnected"

\* After a failure nothing more is processed or sent, and the task stays ended.
NoFurtherActivity ==
    Failed => /\ task' = "disconnected"
              /\ sent' = sent
              /\ ncmds' = ncmds
              /\ state' = state

\* The step of a failure puts a disconnect event into the channel to the main task.
DisconnectNotified ==
    ~Failed /\ Failed' => \E i \in 1 .. Len(to_main') : to_main'[i].kind = "Disconnected"

\* C21: any failure of a send to or a receive from the server, in any state,
\* ends the session: after it no command is processed, no message is sent, the
\* task is not restarted, and the main task is notified of the disconnect.
C21_FailureEndsSession == [][NoFurtherActivity /\ DisconnectNotified]_vars

\* The messages appended to `sent` by the step.
NewlySent == { i \in 1 .. Len(sent') : i > Len(sent) }

\* C22: a Playerpos is sent to the server only while the state is ReadySent; a
\* PlayerPos intent from the main task in Connected, AuthSent or Init2Sent
\* sends nothing.
C22_PlayerposOnlyWhenReady ==
    [][\A i \in NewlySent : sent'[i].kind = "Playerpos" => state = "ReadySent"]_vars

\* The handshake messages in the order the protocol wants them, and the state
\* each is sent on entering.
HandshakeOrder == << "Init", "FirstSrp", "Init2", "ClientReady" >>
HandshakeState == << "Connected", "AuthSent", "Init2Sent", "ReadySent" >>
IsHandshake(msg) == \E k \in 1 .. Len(HandshakeOrder) : msg.kind = HandshakeOrder[k]
HandshakeSent(s) == SelectSeq(s, IsHandshake)
IsPrefix(s, t) == Len(s) <= Len(t) /\ \A i \in 1 .. Len(s) : s[i] = t[i]

\* C23: Init is the first message sent and is sent before any inbound command is
\* processed; FirstSrp, Init2 and ClientReady are each sent at most once, in
\* that order, each exactly in the step that enters AuthSent, Init2Sent and
\* ReadySent.
C23_HandshakeOrder ==
    [][ /\ sent' # << >> => sent'[1].kind = "Init"
        /\ ncmds' > 0 => sent' # << >>
        /\ IsPrefix([i \in 1 .. Len(HandshakeSent(sent')) |-> HandshakeSent(sent')[i].kind],
                    HandshakeOrder)
        /\ \A k \in 2 .. Len(HandshakeOrder) :
              (state # HandshakeState[k] /\ state' = HandshakeState[k])
              <=> (\E i \in NewlySent : sent'[i].kind = HandshakeOrder[k]) ]_vars

\* The handshake has completed with a Playerpos sent in between.
C23_Witness ==
    /\ state = "ReadySent"
    /\ Len(HandshakeSent(sent)) = Len(HandshakeOrder)
    /\ Len(sent) > Len(HandshakeOrder)
    /\ ncmds > Len(Script)

(***************************************************************************)
(* Negotiating: Nodedef and AnnounceMedia.                                 *)
(***************************************************************************)
\* The step handles a command of the kind in state Init2Sent.
HandledInNegotiating(kind) == CommandStep /\ state = "Init2Sent" /\ last'.kind = kind

\* What the claim says of the two commands, a failed send apart.
NegotiatingCommands ==
    /\ HandledInNegotiating("AnnounceMedia") /\ ~Failed'
          => /\ state' = "ReadySent"
             /\ \E i \in NewlySent : sent'[i].kind = "ClientReady"
    /\ HandledInNegotiating("Nodedef")
          => /\ state' = state
             /\ is_some(node_def')
             /\ ~is_some(node_def) => node_def' = Some(from_network(last'.node_def))

\* C24: in Init2Sent an AnnounceMedia causes ClientReady to be sent and the
\* state to become ReadySent; a Nodedef received in Init2Sent is cached and
\* does not change the state.
C24_NegotiatingCommands == [][NegotiatingCommands]_vars

\* C25: missing media is never fatal: an AnnounceMedia handled in Init2Sent with
\* the node definitions cached, none of whose files is in the cache, is
\* handled through the fallback, and the session goes on to ReadySent with the
\* task running (a failed send apart).
C25_MissingMediaNotFatal ==
    [][HandledInNegotiating("AnnounceMedia") /\ is_some(node_def) /\ ~Failed'
         => task' = "running" /\ state' = "ReadySent" /\ is_some(meshgen')]_vars

(***************************************************************************)
(* The decomposition alone: split_index applied to node positions on both  *)
(* sides of the origin, and the position the meshgen gives the node back   *)
(* (generate_single: MapNodePos::from(blockpos) + pos).                    *)
(***************************************************************************)
VoxelRange == (0 - SIZE - 1) .. (2 * SIZE)
VoxelInputs == VoxelRange \X VoxelRange \X VoxelRange

\* generate_single, vertex_offset: the position of the node with the given
\* index in the given mapblock.
vertex_offset(blockpos, index) == VecAdd(node_pos_of_block(blockpos), local_pos(index))

SplitIndex ==
    /\ \E v \in VoxelInputs :
         last' = [ kind |-> "split_index", pos |-> v, result |-> split_index(v),
                   composed |-> vertex_offset(split_index(v)[1], split_index(v)[2]) ]
    /\ UNCHANGED << conn_vars, to_main, to_client, main_vars, ncmds, cmd_jobs, job_log,
                    script >>

NextSplit == SplitIndex

SpecSplit == Init /\ [][NextSplit]_vars

\* Floor division by the mapblock edge.
FloorDiv(a) == CHOOSE q \in (0 - SIZE - 1) .. (SIZE + 1) : q * SIZE <= a /\ a < (q + 1) * SIZE

\* C26: split_index decomposes a node position into the mapblock position (floor
\* division by the edge per axis) and an index in [0, SIZE^3); composing them
\* gives the position back; distinct positions decompose to distinct pairs,
\* negative coordinates included.
C26_DecompositionInverse ==
    last.kind = "split_index" =>
        /\ last.result[1] = << FloorDiv(last.pos[1]), FloorDiv(last.pos[2]),
                               FloorDiv(last.pos[3]) >>
        /\ last.result[2] \in 0 .. (NumNodes - 1)
        /\ last.composed = last.pos
        /\ \A w \in VoxelInputs : w # last.pos => split_index(w) # last.result

\* A position with a negative coordinate that is not a multiple of the edge.
C26_Witness ==
    /\ last.kind = "split_index"
    /\ last.pos = << 0 - 1, SIZE, 0 - SIZE - 1 >>
    /\ last.result[1] = << 0 - 1, 1, 0 - 2 >>
    /\ last.composed = last.pos

(***************************************************************************)
(* The mapblocks present in the map.                                       *)
(***************************************************************************)
\* The step handles a Blockdata.
BlockdataStep == CommandStep /\ last'.kind = "Blockdata"

\* The step handles a Blockdata in ReadySent and the GotBlocks is sent.
BlockdataAccepted == BlockdataStep /\ state = "ReadySent" /\ ~Failed'

\* Presence changes with the Blockdata steps in Sent and with no other: each
\* of them makes its mapblock present, and no mapblock is ever removed.
PresenceFollows(Sent) ==
    /\ Sent => last'.pos \in DOMAIN map'
    /\ DOMAIN map \subseteq DOMAIN map'
    /\ DOMAIN map' # DOMAIN map => Sent /\ DOMAIN map' = DOMAIN map \cup { last'.pos }

\* C27 as stated: a mapblock is present if and only if the server has sent a
\* Blockdata for it, and is never removed.
C27_Original == [][PresenceFollows(BlockdataStep)]_vars

\* C27: a mapblock is present if and only if a Blockdata for it has been
\* handled in ReadySent with its GotBlocks sent; once present it is never
\* removed, so the set of present mapblocks only grows.
C27_Amended == [][PresenceFollows(BlockdataAccepted)]_vars

\* A second mapblock has become present next to the first.
C27_Witness ==
    /\ Cardinality(DOMAIN map) = 2
    /\ last.kind = "Blockdata"
    /\ last.pos \in DOMAIN map
    /\ task = "running"

(***************************************************************************)
(* Addnode and Removenode.                                                 *)
(***************************************************************************)
\* The step handles an Addnode or a Removenode in ReadySent.
NodeChangeStep ==
    CommandStep /\ state = "ReadySent" /\ last'.kind \in { "Addnode", "Removenode" }

\* The node the command is to write.
WrittenNode(cmd) ==
    IF cmd.kind = "Addnode" THEN cmd.node
    ELSE [content_id |-> CONTENT_AIR, param1 |-> 0, param2 |-> 0]

\* C28: in ReadySent an Addnode writes the given node and a Removenode the air
\* node (content AIR, param1 = param2 = 0) at the given position. When the
\* mapblock of the position is present, that mapblock and its present
\* neighbours are handed to the meshgen, each once; when it is absent the map
\* is unchanged and no job is submitted.
C28_NodeChange ==
    [][ NodeChangeStep =>
          IF BlockOf(last'.pos) \in DOMAIN map
          THEN /\ map' = [map EXCEPT ![BlockOf(last'.pos)] =
                             [@ EXCEPT ![LocalIndex(last'.pos)] = WrittenNode(last')]]
               /\ { pending'[i] : i \in 1 .. Len(pending') } = RemeshSet(BlockOf(last'.pos))
               /\ Len(pending') = Cardinality(RemeshSet(BlockOf(last'.pos)))
               /\ task' = "running"
          ELSE /\ map' = map
               /\ pending' = << >>
               /\ job_log' = job_log
               /\ to_main' = to_main ]_vars

\* A Removenode has put air into an all-solid mapblock, and the mapblock and its
\* present neighbour have been submitted.
C28_Witness ==
    /\ last.kind = "Removenode"
    /\ BlockOf(last.pos) \in DOMAIN map
    /\ VoxelAt(last.pos).content_id = CONTENT_AIR
    /\ \E i \in 0 .. (NumNodes - 1) : map[BlockOf(last.pos)][i].content_id = 1
    /\ pending = << >> /\ running = None
    /\ Len(cmd_jobs) >= 1

(***************************************************************************)
(* The reconciler: what a delivery leaves alone.                           *)
(***************************************************************************)
\* The step passes one mesh to insert_mapblock_mesh.
DeliveryStep == Len(delivered') = Len(delivered) + 1
Arrived == delivered'[Len(delivered')]

\* The arriving mesh is for a mapblock with a stored mesh and is not newer.
NotNewer ==
    /\ Arrived.blockpos \in DOMAIN mapblock_meshes
    /\ Arrived.timestamp_task_spawned
         <= mapblock_meshes[Arrived.blockpos].timestamp_task_spawned

\* C29: a mesh whose timestamp is not strictly greater than that of the stored
\* mesh of its mapblock (older or equal) is discarded, the entry stays as it is;
\* and the reconciling of a mesh for one mapblock neither changes nor removes
\* nor adds the entry of any other mapblock.
C29_StaleDiscarded ==
    [][ DeliveryStep =>
          /\ NotNewer => mapblock_meshes' = mapblock_meshes
          /\ \A k \in BlockPositions \ { Arrived.blockpos } :
                /\ k \in DOMAIN mapblock_meshes' <=> k \in DOMAIN mapblock_meshes
                /\ k \in DOMAIN mapblock_meshes => mapblock_meshes'[k] = mapblock_meshes[k] ]_vars

\* A mesh with the timestamp of the stored one arrived and was discarded, and
\* another mapblock has an entry.
C29_Witness ==
    /\ Cardinality(DOMAIN mapblock_meshes) >= 2
    /\ \E i, j \in 1 .. Len(delivered) :
         /\ i < j
         /\ delivered[i].blockpos = delivered[j].blockpos
         /\ delivered[i].timestamp_task_spawned = delivered[j].timestamp_task_spawned
         /\ mapblock_meshes[delivered[i].blockpos] = delivered[i]
         /\ mapblock_meshes[delivered[i].blockpos] # delivered[j]

(***************************************************************************)
(* The buffers of a MapblockMesh.                                          *)
(***************************************************************************)
\* The meshes sent to the main task: those in the channel and those received.
MeshesSent ==
    { to_main[i].mesh : i \in { j \in 1 .. Len(to_main) : to_main[j].kind = "MapblockMesh" } }
    \cup { delivered[i] : i \in 1 .. Len(delivered) }

\* The paths of the jobs whose meshes have been sent.
PathsSent == { job_log[m.job].path : m \in MeshesSent }

\* C30: in every MapblockMesh sent to the main task, index_buffer and
\* vertex_buffer are both absent if and only if num_indices is 0, and both
\* present otherwise, on the fast empty, the late empty and the populated path.
C30_BuffersIffIndices ==
    \A m \in MeshesSent :
        /\ (m.index_buffer = None /\ m.vertex_buffer = None) <=> m.num_indices = 0
        /\ m.index_buffer = None <=> m.vertex_buffer = None

\* Meshes of all three paths have been sent.
C30_Witness ==
    /\ PathsSent = { "fast", "late", "populated" }
    /\ \E m \in MeshesSent : m.num_indices > 0 /\ is_some(m.index_buffer)

(***************************************************************************)
(* Timestamps and the order of mutations and jobs.                         *)
(***************************************************************************)
\* Every mesh sent carries the clock reading of the submit call of its job.
TimestampOfSubmission ==
    \A m \in MeshesSent : m.timestamp_task_spawned = job_log[m.job].t

\* Of two jobs for the same mapblock the later has the greater timestamp.
TimestampsStrictlyIncrease ==
    \A i, j \in 1 .. Len(job_log) :
        i < j /\ job_log[i].blockpos = job_log[j].blockpos => job_log[i].t < job_log[j].t

\* C31: the timestamp of every MapblockMesh is the clock reading taken when its
\* job was submitted, not when it completed; and of two jobs for the same
\* mapblock the one submitted later carries a strictly greater timestamp.
C31_SubmissionTimestamps == TimestampOfSubmission /\ TimestampsStrictlyIncrease

\* The map after the mutation of the command, applied to the map m.
Mutated(m, cmd) ==
    IF cmd.kind = "Blockdata"
    THEN [p \in (DOMAIN m) \cup { cmd.pos } |-> IF p = cmd.pos THEN cmd.nodes ELSE m[p]]
    ELSE IF BlockOf(cmd.pos) \in DOMAIN m
    THEN [m EXCEPT ![BlockOf(cmd.pos)] = [@ EXCEPT ![LocalIndex(cmd.pos)] = WrittenNode(cmd)]]
    ELSE m

\* The step submits a job.
SubmitStep == Len(job_log') = Len(job_log) + 1

\* C32: the mutations of the map are applied in the order in which the
\* Blockdata, Addnode and Removenode are received, each to the map the previous
\* ones have left; the jobs a mutation triggers are all submitted after it is
\* applied and before the next command changes the map.
C32_MutationOrder ==
    [][ /\ map' # map =>
              /\ CommandStep
              /\ last'.kind \in { "Blockdata", "Addnode", "Removenode" }
              /\ map' = Mutated(map, last')
              /\ pending = << >> /\ running = None
        /\ SubmitStep =>
              /\ map' = map
              /\ last.kind \in { "Blockdata", "Addnode", "Removenode" }
              /\ job_log'[Len(job_log')].world = map
              /\ job_log'[Len(job_log')].blockpos \in RemeshSet(ChangedBlock)
              /\ ~CommandStep ]_vars

\* Two mutations were applied, the second a change of one node, each followed
\* by its jobs.
C32_Witness ==
    /\ last.kind \in { "Addnode", "Removenode" }
    /\ pending = << >> /\ running = None
    /\ Len(job_log) >= 2
    /\ job_log[1].world # job_log[Len(job_log)].world
    /\ job_log[Len(job_log)].world = map

(***************************************************************************)
(* What the meshgen is asked for.                                          *)
(***************************************************************************)
\* The step handles a Blockdata, an Addnode or a Removenode in ReadySent.
MutationStep ==
    /\ CommandStep /\ state = "ReadySent"
    /\ last'.kind \in { "Blockdata", "Addnode", "Removenode" }

\* C33: no job is submitted, and no snapshot built, for a mapblock that is
\* absent from the map at that time; the lookup of the centre mapblock in
\* generate_mapblock_with_neighbors never finds it missing.
C33_OnlyPresentBlocks ==
    [][ /\ \A i \in 1 .. Len(pending') : pending'[i] \in DOMAIN map'
        /\ SubmitStep =>
              /\ job_log'[Len(job_log')].blockpos \in DOMAIN map
              /\ is_some(running') => unwrap(running').data.block
                                        = map[job_log'[Len(job_log')].blockpos]
        /\ MutationStep => task' # "panicked" ]_vars

\* A job for a present neighbour was submitted while another neighbour
\* position holds no mapblock.
C33_Witness ==
    /\ Len(cmd_jobs) = 2 /\ pending = << >>
    /\ Cardinality(DOMAIN map) = 2
    /\ \E d \in FaceDirs : VecAdd(cmd_jobs[1], d) \notin DOMAIN map

(***************************************************************************)
(* get_node alone: the positions generate_single asks for, and any other   *)
(* position, on snapshots of maps that hold mapblocks two steps around the *)
(* centre, the diagonal ones included.                                     *)
(***************************************************************************)
AroundRange == (0 - 2) .. 1
AroundPositions == AroundRange \X AroundRange \X AroundRange

\* Every mapblock around the centre is present, or all but those in +X and -Z;
\* each node tells the mapblock and the index it is stored at.
GetNodeMaps ==
    { [p \in AroundPositions \ absent |->
          Marked(AllSolid, ((p[1] + 2) * 16) + ((p[2] + 2) * 4) + (p[3] + 2))] :
      absent \in { {}, { << 1, 0, 0 >>, << 0, 0, 0 - 1 >> } } }

InitGetNode == \E m \in GetNodeMaps : InitWorld(m)

\* The snapshot MeshgenTask::spawn makes for mapblock (0,0,0).
CentreData == MeshgenMapData_new(map, ZERO, map[ZERO])

\* generate_single: the neighbour position of one face of one node of generate's loop.
GenerateQuery ==
    /\ last.kind = "Blockdata"
    /\ \E index \in 0 .. (NumNodes - 1), face \in 1 .. 6 :
         LET n_pos == VecAdd(local_pos(index), NEIGHBOR_DIRS[face])
         IN  last' = [ kind |-> "query", pos |-> n_pos,
                       result |-> get_node(CentreData, n_pos) ]
    /\ UNCHANGED << conn_vars, to_main, to_client, main_vars, ncmds, cmd_jobs, job_log,
                    script >>

\* get_node called with any position.
GetNodeAny ==
    /\ last.kind = "Blockdata"
    /\ \E p \in VoxelInputs :
         last' = [ kind |-> "get_node", pos |-> p, result |-> get_node(CentreData, p) ]
    /\ UNCHANGED << conn_vars, to_main, to_client, main_vars, ncmds, cmd_jobs, job_log,
                    script >>

NextGetNode == GenerateQuery \/ GetNodeAny

SpecGetNode == InitGetNode /\ [][NextGetNode]_vars

\* The axes on which the position is outside the centre mapblock, and by how much.
AxesOutside(p) == { a \in 1 .. 3 : p[a] < 0 \/ p[a] >= SIZE }
OneStepOutside(p) == \A a \in AxesOutside(p) : p[a] = 0 - 1 \/ p[a] = SIZE

\* C34: generate asks the snapshot only for positions in range on all axes or
\* one step out of range on exactly one axis, so the mapblock offset get_node
\* computes is zero or one of the six unit vectors; for any other offset
\* (diagonal, or two or more mapblocks away) get_node returns None.
C34_QueriesInRegion ==
    /\ last.kind = "query" =>
          /\ Cardinality(AxesOutside(last.pos)) <= 1
          /\ OneStepOutside(last.pos)
          /\ BlockOf(last.pos) \in { ZERO } \cup FaceDirs
    /\ (last.kind = "get_node" /\ BlockOf(last.pos) \notin { ZERO } \cup FaceDirs)
          => last.result = None

\* get_node has returned None for a node of the diagonal mapblock (1,1,0),
\* which the map holds.
C34_Witness ==
    /\ last.kind = "get_node"
    /\ BlockOf(last.pos) = << 1, 1, 0 >>
    /\ BlockOf(last.pos) \in DOMAIN map
    /\ last.result = None

(***************************************************************************)
(* The channel to the main task.                                           *)
(***************************************************************************)
\* The step is one about_to_wait that found events in the channel.
DrainStep == to_main # << >> /\ to_main' # to_main /\ Len(to_main') < Len(to_main)

\* A drain takes every event queued and passes the meshes among them to
\* insert_mapblock_mesh in the order of the queue.
DrainsAllInOrder ==
    DrainStep =>
        /\ to_main' = << >>
        /\ delivered' = delivered \o [i \in 1 .. Len(MeshesInChannel) |-> MeshesInChannel[i].mesh]

\* No mesh is passed to insert_mapblock_mesh twice.
DeliveredOnce ==
    \A i, j \in 1 .. Len(delivered') : i # j => delivered'[i].job # delivered'[j].job

\* The main task does not end while a mesh waits in the channel.
NoMeshStranded == main_task' # "running" => MeshesInChannel' = << >>

\* C35: every MapblockMesh sent on the channel is received and passed to
\* insert_mapblock_mesh exactly once: none is left in the channel of a main
\* task that has ended, none is passed twice, and each about_to_wait takes all
\* the events queued, in the order of the queue.
C35_EveryMeshReceived == [][DrainsAllInOrder /\ DeliveredOnce /\ NoMeshStranded]_vars

(***************************************************************************)
(* The mesh table at rest.                                                 *)
(***************************************************************************)
\* The mesh generate gives for mapblock k of the current map.
CurrentMesh(k) ==
    generate([ node_def |-> unwrap(meshgen).node_def,
               texture_map |-> unwrap(meshgen).texture_map,
               data |-> MeshgenMapData_new(map, k, map[k]),
               timestamp_task_spawned |-> 0 ])[1]

\* C36: when no command is being handled and the result of every submitted job
\* has been reconciled, the mesh stored for every mapblock of the map is the
\* face culling result for the current content of that mapblock and of its
\* present neighbours.
C36_QuiescentConsistency ==
    (Settled /\ task = "running") =>
        \A k \in DOMAIN map :
            /\ k \in DOMAIN mapblock_meshes
            /\ mapblock_meshes[k].num_indices = CurrentMesh(k).num_indices
            /\ mapblock_meshes[k].vertex_buffer = CurrentMesh(k).vertex_buffer

(***************************************************************************)
(* What the handlers take for granted.                                     *)
(***************************************************************************)
\* C37: whenever an AnnounceMedia is handled in Init2Sent the node definitions
\* are there for building the Meshgen, whatever the order of the commands, so
\* the unwrap of node_def does not abort the connection task.
C37_NodeDefAvailable ==
    [][HandledInNegotiating("AnnounceMedia") /\ ~is_some(media) => is_some(node_def)]_vars

\* C38: jobs are submitted only in ReadySent and only once the Meshgen exists:
\* at every state ReadySent implies that meshgen is Some, so the assertion and
\* the unwrap at the start of generate_mapblock_with_neighbors never fail.
C38_ReadyImpliesMeshgen ==
    [][ /\ state' = "ReadySent" => is_some(meshgen')
        /\ (SubmitStep \/ pending' # << >>) => state = "ReadySent" /\ is_some(meshgen)
        /\ (CommandStep /\ last'.kind \in { "Blockdata", "Addnode", "Removenode" })
              => task' # "panicked" ]_vars

\* Jobs have been submitted in ReadySent, after commands that came too early
\* to be handled.
C38_Witness ==
    /\ state = "ReadySent" /\ is_some(meshgen) /\ task = "running"
    /\ Len(job_log) >= 1
    /\ script = 0 - 1

(***************************************************************************)
(* The texture data and the meshes on the channel.                         *)
(***************************************************************************)
\* The positions of the MapblockTextureData events in the channel.
TextureEvents(chan) == { i \in 1 .. Len(chan) : chan[i].kind = "MapblockTextureData" }

\* The MapblockTextureData events sent so far: in the channel, or received.
TextureEventsSent(chan, data) ==
    Cardinality(TextureEvents(chan)) + (IF is_some(data) THEN 1 ELSE 0)

\* C39: the MapblockTextureData event is sent once, when the Meshgen is built,
\* and is received before any MapblockMesh, so that the assertions of
\* setup_mapblock_rendering and of insert_mapblock_mesh hold in every
\* interleaving of the connection task, the meshgen and the main task.
C39_TextureDataFirst ==
    [][ /\ TextureEventsSent(to_main', mapblock_texture_data') <= 1
        /\ is_some(meshgen') <=> TextureEventsSent(to_main', mapblock_texture_data') = 1
        /\ \A i \in 1 .. Len(to_main') :
              to_main'[i].kind = "MapblockMesh"
                => \/ is_some(mapblock_texture_data')
                   \/ \E j \in TextureEvents(to_main') : j < i
        /\ delivered' # << >> => is_some(mapblock_texture_data')
        /\ DrainStep => main_task' = "running" ]_vars

\* The main task has received the texture data and then meshes, in more than
\* one drain.
C39_Witness ==
    /\ is_some(mapblock_texture_data) /\ main_task = "running"
    /\ Len(delivered) >= 2
    /\ MeshesInChannel # << >>

(***************************************************************************)
(* A failed send.                                                          *)
(***************************************************************************)
\* The step handles a command whose send fails.
FailedSendStep == CommandStep /\ ~Failed /\ Failed'

\* What every failed send leaves alone.
FailedSendKeeps ==
    /\ last'.kind \in { "Hello", "AuthAccept", "AnnounceMedia", "Blockdata" }
    /\ state' = state
    /\ sent' = sent
    /\ map' = map
    /\ pending' = << >> /\ running' = None /\ job_log' = job_log

\* The rest of the connection task, and the channel to the main task.
RestKept ==
    node_def' = node_def /\ media' = media /\ meshgen' = meshgen /\ to_main' = to_main

\* C40 as stated: a failed send leaves the connection task as it was before
\* the command, for FirstSrp, Init2, ClientReady and GotBlocks alike.
C40_Original == [][FailedSendStep => FailedSendKeeps /\ RestKept]_vars

\* C40: when the send of FirstSrp, Init2 or ClientReady fails the connection
\* state is not advanced, and when the send of GotBlocks for a Blockdata fails
\* the mapblock is not inserted into the map and no job is submitted; the task
\* is as it was before the command, except that for ClientReady the Meshgen
\* has been built by then.
C40_Amended ==
    [][FailedSendStep => FailedSendKeeps /\ (last'.kind # "AnnounceMedia" => RestKept)]_vars

\* The send of GotBlocks has failed for a second mapblock, which is not in the
\* map, while the first is.
C40_Witness ==
    /\ Failed /\ last.kind = "Blockdata" /\ state = "ReadySent"
    /\ last.pos \notin DOMAIN map
    /\ Cardinality(DOMAIN map) = 1
====
